---- MODULE Spec2Model ----
(***************************************************************************)
(* TDCC shareholding-distribution tools: the query entry points that       *)
(* resolve a requested date range against the local archive and build the  *)
(* three metric tables, and the bucket classifier of the analysis step.    *)
(*                                                                         *)
(* Dates are day numbers of January 2024 (1 = 2024-01-01, 15 = 2024-01-15).*)
(* The archive of one stock holds weekly snapshots, so an archive is any   *)
(* subset of the weekly publication days; a request may name any day.      *)
(***************************************************************************)
EXTENDS Integers, Sequences, FiniteSets, TLC

\* ------------------------------------------------------------------ bounds
MaxDay == 22

Days == 1..MaxDay
\* weekly publication days 1, 8, 15, 22, ...
WeeklyDays == {d \in Days : d % 7 = 1}

\* ------------------------------------------------------- program constants
\* Python None for an Optional[date]
NoDate == 0
\* the 15 TDCC holding levels of one snapshot
NumBuckets == 15

\* ------------------------------------------------------------ list helpers
RECURSIVE sorted(_)
\* Python sorted() of a collection of distinct dates
sorted(S) ==
    IF S = {} THEN <<>>
    ELSE LET m == CHOOSE x \in S : \A y \in S : x <= y
         IN <<m>> \o sorted(S \ {m})

\* Python reversed()
reversed(s) == [i \in 1..Len(s) |-> s[Len(s) + 1 - i]]

\* Python min() / max() of a non-empty list
SeqMin(s) == CHOOSE x \in {s[i] : i \in 1..Len(s)} : \A j \in 1..Len(s) : x <= s[j]
SeqMax(s) == CHOOSE x \in {s[i] : i \in 1..Len(s)} : \A j \in 1..Len(s) : x >= s[j]

\* ------------------------------------------------------------ the archive
\* content of the snapshot file of day d: one value per level and metric
SnapshotOf(d) ==
    [people  |-> [b \in 1..NumBuckets |-> 1000 * d + b],
     shares  |-> [b \in 1..NumBuckets |-> 100000 * d + 10 * b],
     percent |-> [b \in 1..NumBuckets |-> IF b = NumBuckets THEN 100 - (NumBuckets - 1) ELSE 1]]

VARIABLES
    entry,      \* which program serves the request
    dirExists,  \* the stock's directory exists under the data root
    archive,    \* days that have a snapshot file in the directory
    reqStart,   \* requested start day
    reqEnd,     \* requested end day
    pc,         \* position of the running program
    dates,      \* the listed available dates (ascending list)
    startUse,   \* resolved start boundary, NoDate before resolution
    endUse,     \* resolved end boundary, NoDate before resolution
    warnings,   \* warnings emitted so far, in order
    selected,   \* the dates handed to the table builder
    table,      \* the rows of the three metric tables, one row per date
    written,    \* the output workbook has been written
    outcome,    \* "running", "ok" or the error that ended the request
    start_idx,  \* prog2_query_and_overlay: index of the start record
    end_idx,    \* prog2_query_and_overlay: index of the end record
    label,      \* classifier: the bucket label, a sequence of characters
    spec,       \* classifier: the CategorySpec (mode, price, custom)
    rng,        \* classifier: the (low, high) range parsed from the label
    category,   \* classifier: the category name returned
    cpc,        \* classifier: position in the per-column loop body
    prog,       \* analysis: which analysis program runs
    args,       \* analysis: the parsed command line (mode, price, custom)
    columns,    \* analysis: the column labels of the input table
    df,         \* analysis: the rows of the input table, one cell per column
    categories, \* analysis: the classification of the columns
    grouped,    \* analysis: the reduced table (columns and rows)
    tablesRead, \* analysis: the input workbook has been read
    filesOut,   \* analysis: the output workbooks written so far
    exit,       \* analysis: "running", "ok" or the error that ended the run
    apc,        \* analysis: position of the running program
    malformed,  \* days whose csv snapshot lacks a required column
    raw_entries, \* table builder: the loaded entries, each a date and its rows
    df_tables,  \* table builder: the pivot of the people counts
    ppc,        \* table builder: position
    is_empty,   \* block reader: per sheet row, whether all its cells are NaN
    blocks,     \* block reader: the (start, end) pairs found
    bpc,        \* block reader: position
    max_retries, \* retry: the max_retries argument
    attempt,    \* retry: the loop variable, 0 before the first iteration
    history,    \* retry: the outcome of every request issued, in order
    sleeps,     \* retry: the factor of every time.sleep(backoff * attempt)
    response,   \* retry: what the call ended with
    rpc,        \* retry: position
    crawler,    \* crawl: which incremental crawler runs
    simulate,   \* crawl: the simulate argument of crawl_for_code
    initial,    \* crawl: the snapshot files on disk when the run starts
    on_disk,    \* crawl: the snapshot files on disk now
    existing,   \* crawl: the set of existing dates read at the start
    todo,       \* crawl: the target dates not yet visited, in order
    fetched,    \* crawl: per date, the number of fetch attempts
    saved,      \* crawl: per date, the number of times its file was written
    kpc,        \* crawl: position
    stocks,     \* fetch pool: the submitted stock codes, in order
    concurrency, \* fetch pool: max_workers
    disk,       \* fetch pool: the (stock, date) csv files on disk
    futures,    \* fetch pool: per submitted call, its worker's local state
    writes,     \* fetch pool: every save_rows_csv so far, in order
    results,    \* fetch pool: the collected (code, created) results
    fpc         \* fetch pool: position of main

qvars == <<entry, dirExists, archive, reqStart, reqEnd, pc, dates, startUse,
           endUse, warnings, selected, table, written, outcome>>
ivars == <<start_idx, end_idx>>
cvars == <<label, spec, rng, category, cpc>>

avars == <<prog, args, columns, df, categories, grouped, tablesRead, filesOut,
           exit, apc>>

pvars == <<raw_entries, df_tables, ppc>>
bvars == <<is_empty, blocks, bpc>>
rvars == <<max_retries, attempt, history, sleeps, response, rpc>>
kvars == <<crawler, simulate, initial, on_disk, existing, todo, fetched, saved, kpc>>
fvars == <<stocks, concurrency, disk, futures, writes, results, fpc>>
xvars == <<malformed, pvars, bvars, rvars, kvars, fvars>>

vars == <<qvars, ivars, cvars, avars, xvars>>

\* no table builder, block reader, retry, crawl or fetch pool is running
PIdle == raw_entries = <<>> /\ df_tables = <<>> /\ ppc = "idle"
BIdle == is_empty = <<>> /\ blocks = <<>> /\ bpc = "idle"
RIdle ==
    /\ max_retries = 0 /\ attempt = 0 /\ history = <<>> /\ sleeps = <<>>
    /\ response = "" /\ rpc = "idle"
KIdle ==
    /\ crawler = "none" /\ simulate = FALSE /\ initial = {} /\ on_disk = {}
    /\ existing = {} /\ todo = <<>> /\ fetched = <<>> /\ saved = <<>>
    /\ kpc = "idle"
FIdle ==
    /\ stocks = <<>> /\ concurrency = 0 /\ disk = {} /\ futures = <<>>
    /\ writes = <<>> /\ results = <<>> /\ fpc = "idle"
\* every snapshot of the archive is well formed
WellFormed == malformed = {}
XIdle == WellFormed /\ PIdle /\ BIdle /\ RIdle /\ KIdle /\ FIdle

\* ====================================================== query_and_aggregate
\* list_available_dates: the dated csv files of the directory, ascending
list_available_dates(files) == sorted(files)

\* pick_boundary_date taking the last date >= target instead of the first
pick_boundary_date_GeLast(available, target, prefer_ge) ==
    IF available = <<>> THEN <<NoDate, FALSE>>
    ELSE IF prefer_ge
    THEN LET ge == SelectSeq(available, LAMBDA d : d >= target)
             le == SelectSeq(reversed(available), LAMBDA d : d <= target)
         IN IF ge # <<>> THEN <<ge[Len(ge)], FALSE>>
            ELSE IF le # <<>> THEN <<le[1], TRUE>>
            ELSE <<available[1], TRUE>>
    ELSE LET le == SelectSeq(available, LAMBDA d : d <= target)
             ge == SelectSeq(available, LAMBDA d : d >= target)
         IN IF le # <<>> THEN <<le[Len(le)], FALSE>>
            ELSE IF ge # <<>> THEN <<ge[1], TRUE>>
            ELSE <<available[Len(available)], TRUE>>

\* pick_boundary_date comparing with < instead of <= for the end boundary
pick_boundary_date_StrictLe(available, target, prefer_ge) ==
    IF available = <<>> THEN <<NoDate, FALSE>>
    ELSE IF prefer_ge
    THEN LET ge == SelectSeq(available, LAMBDA d : d >= target)
             le == SelectSeq(reversed(available), LAMBDA d : d <= target)
         IN IF ge # <<>> THEN <<ge[1], FALSE>>
            ELSE IF le # <<>> THEN <<le[1], TRUE>>
            ELSE <<available[1], TRUE>>
    ELSE LET le == SelectSeq(available, LAMBDA d : d < target)
             ge == SelectSeq(available, LAMBDA d : d >= target)
         IN IF le # <<>> THEN <<le[Len(le)], FALSE>>
            ELSE IF ge # <<>> THEN <<ge[1], TRUE>>
            ELSE <<available[Len(available)], TRUE>>

\* pick_boundary_date: returns <<date, warn>>
pick_boundary_date(available, target, prefer_ge) ==
    IF available = <<>> THEN <<NoDate, FALSE>>
    ELSE IF prefer_ge
    THEN LET ge == SelectSeq(available, LAMBDA d : d >= target)
             le == SelectSeq(reversed(available), LAMBDA d : d <= target)
         IN IF ge # <<>> THEN <<ge[1], FALSE>>
            ELSE IF le # <<>> THEN <<le[1], TRUE>>
            ELSE <<available[1], TRUE>>
    ELSE LET le == SelectSeq(available, LAMBDA d : d <= target)
             ge == SelectSeq(available, LAMBDA d : d >= target)
         IN IF le # <<>> THEN <<le[Len(le)], FALSE>>
            ELSE IF ge # <<>> THEN <<ge[1], TRUE>>
            ELSE <<available[Len(available)], TRUE>>

\* load_tdcc_csv: the ValueError of line 92 for a csv that lacks one of the
\* required columns, the four columns of the file otherwise
load_tdcc_csv(d) == [raised |-> d \in malformed, frame |-> SnapshotOf(d)]

\* build_pivots loading every csv of the directory, whatever the date range
build_pivots_AllFiles(files, date_range) ==
    LET order == sorted(files)
    IN [i \in 1..Len(order) |->
            [date    |-> order[i],
             people  |-> SnapshotOf(order[i]).people,
             shares  |-> SnapshotOf(order[i]).shares,
             percent |-> SnapshotOf(order[i]).percent]]

\* build_pivots: one row per date of date_range whose csv exists, sorted by date
build_pivots(files, date_range) ==
    LET present == SelectSeq(date_range, LAMBDA d : d \in files)
        rows == [i \in 1..Len(present) |->
                    [date    |-> present[i],
                     people  |-> SnapshotOf(present[i]).people,
                     shares  |-> SnapshotOf(present[i]).shares,
                     percent |-> SnapshotOf(present[i]).percent]]
        order == sorted({present[i] : i \in 1..Len(present)})
    IN [i \in 1..Len(order) |->
            rows[CHOOSE k \in 1..Len(rows) : rows[k].date = order[i]]]

\* main, lines 300-310: the directory check and the listing
QA_ListDates ==
    /\ entry = "qa" /\ pc = "start"
    /\ IF ~dirExists
       THEN /\ outcome' = "no_dir" /\ pc' = "done" /\ dates' = dates
       ELSE LET ds == list_available_dates(archive)
            IN /\ dates' = ds
               /\ IF ds = <<>>
                  THEN outcome' = "no_data" /\ pc' = "done"
                  ELSE outcome' = outcome /\ pc' = "qa_resolve"
    /\ UNCHANGED <<entry, dirExists, archive, reqStart, reqEnd, startUse,
                   endUse, warnings, selected, table, written>>
    /\ UNCHANGED <<ivars, cvars, avars>>
    /\ UNCHANGED xvars

\* main, lines 312-322: both boundaries, the warnings, the date range
QA_Resolve ==
    /\ entry = "qa" /\ pc = "qa_resolve"
    /\ LET s == pick_boundary_date(dates, reqStart, TRUE)
           e == pick_boundary_date(dates, reqEnd, FALSE)
       IN /\ startUse' = s[1]
          /\ endUse' = e[1]
          /\ IF s[1] = NoDate \/ e[1] = NoDate
             THEN /\ outcome' = "no_boundary" /\ pc' = "done"
                  /\ UNCHANGED <<warnings, selected>>
             ELSE /\ warnings' = (IF s[2] THEN <<"start">> ELSE <<>>)
                                 \o (IF e[2] THEN <<"end">> ELSE <<>>)
                  /\ selected' = SelectSeq(dates, LAMBDA d : s[1] <= d /\ d <= e[1])
                  /\ outcome' = outcome /\ pc' = "qa_build"
    /\ UNCHANGED <<entry, dirExists, archive, reqStart, reqEnd, dates, table, written>>
    /\ UNCHANGED <<ivars, cvars, avars>>
    /\ UNCHANGED xvars

\* main, line 324: build_pivots has no handler around load_tdcc_csv (line
\* 116) and main has none around build_pivots, so the ValueError ends the run
QA_BuildPivots ==
    /\ entry = "qa" /\ pc = "qa_build"
    /\ IF \E i \in 1..Len(selected) :
            selected[i] \in archive /\ load_tdcc_csv(selected[i]).raised
       THEN /\ outcome' = "value_error" /\ pc' = "done" /\ table' = table
       ELSE /\ table' = build_pivots(archive, selected)
            /\ outcome' = outcome /\ pc' = "qa_write"
    /\ UNCHANGED <<entry, dirExists, archive, reqStart, reqEnd, dates, startUse,
                   endUse, warnings, selected, written>>
    /\ UNCHANGED <<ivars, cvars, avars>>
    /\ UNCHANGED xvars

\* main, lines 326-330
QA_WriteExcel ==
    /\ entry = "qa" /\ pc = "qa_write"
    /\ written' = TRUE
    /\ outcome' = "ok"
    /\ pc' = "done"
    /\ UNCHANGED <<entry, dirExists, archive, reqStart, reqEnd, dates, startUse,
                   endUse, warnings, selected, table>>
    /\ UNCHANGED <<ivars, cvars, avars>>
    /\ UNCHANGED xvars

\* ======================================= program2_data_query.StockDataQuery
\* get_available_dates: the dated json files of the directory, ascending
get_available_dates(files) == sorted(files)

\* find_closest_dates taking the earliest date <= end instead of the latest
find_closest_dates_EndMin(available_dates, start_dt, end_dt) ==
    IF available_dates = <<>>
    THEN [raised |-> "no_data", closest_start |-> NoDate, closest_end |-> NoDate,
          warnings |-> <<>>]
    ELSE LET future_s == SelectSeq(available_dates, LAMBDA d : d >= start_dt)
             past_s   == SelectSeq(available_dates, LAMBDA d : d < start_dt)
             closest_start == IF future_s # <<>> THEN SeqMin(future_s)
                              ELSE IF past_s # <<>> THEN SeqMax(past_s)
                              ELSE NoDate
             start_warning == future_s = <<>> /\ past_s # <<>>
             past_e   == SelectSeq(available_dates, LAMBDA d : d <= end_dt)
             future_e == SelectSeq(available_dates, LAMBDA d : d > end_dt)
             closest_end == IF past_e # <<>> THEN SeqMin(past_e)
                            ELSE IF future_e # <<>> THEN SeqMin(future_e)
                            ELSE NoDate
             end_warning == past_e = <<>> /\ future_e # <<>>
         IN IF closest_start = NoDate \/ closest_end = NoDate
            THEN [raised |-> "no_range", closest_start |-> closest_start,
                  closest_end |-> closest_end, warnings |-> <<>>]
            ELSE [raised |-> "", closest_start |-> closest_start,
                  closest_end |-> closest_end,
                  warnings |-> (IF start_warning THEN <<"start">> ELSE <<>>)
                               \o (IF end_warning THEN <<"end">> ELSE <<>>)]

\* find_closest_dates without the fallback to an earlier start date
find_closest_dates_NoFallback(available_dates, start_dt, end_dt) ==
    IF available_dates = <<>>
    THEN [raised |-> "no_data", closest_start |-> NoDate, closest_end |-> NoDate,
          warnings |-> <<>>]
    ELSE LET future_s == SelectSeq(available_dates, LAMBDA d : d >= start_dt)
             past_s   == SelectSeq(available_dates, LAMBDA d : d < start_dt)
             closest_start == IF future_s # <<>> THEN SeqMin(future_s)
                              ELSE NoDate
             start_warning == future_s = <<>> /\ past_s # <<>>
             past_e   == SelectSeq(available_dates, LAMBDA d : d <= end_dt)
             future_e == SelectSeq(available_dates, LAMBDA d : d > end_dt)
             closest_end == IF past_e # <<>> THEN SeqMax(past_e)
                            ELSE IF future_e # <<>> THEN SeqMin(future_e)
                            ELSE NoDate
             end_warning == past_e = <<>> /\ future_e # <<>>
         IN IF closest_start = NoDate \/ closest_end = NoDate
            THEN [raised |-> "no_range", closest_start |-> closest_start,
                  closest_end |-> closest_end, warnings |-> <<>>]
            ELSE [raised |-> "", closest_start |-> closest_start,
                  closest_end |-> closest_end,
                  warnings |-> (IF start_warning THEN <<"start">> ELSE <<>>)
                               \o (IF end_warning THEN <<"end">> ELSE <<>>)]

\* find_closest_dates: a record of what it returns or raises
find_closest_dates(available_dates, start_dt, end_dt) ==
    IF available_dates = <<>>
    THEN [raised |-> "no_data", closest_start |-> NoDate, closest_end |-> NoDate,
          warnings |-> <<>>]
    ELSE LET future_s == SelectSeq(available_dates, LAMBDA d : d >= start_dt)
             past_s   == SelectSeq(available_dates, LAMBDA d : d < start_dt)
             closest_start == IF future_s # <<>> THEN SeqMin(future_s)
                              ELSE IF past_s # <<>> THEN SeqMax(past_s)
                              ELSE NoDate
             start_warning == future_s = <<>> /\ past_s # <<>>
             past_e   == SelectSeq(available_dates, LAMBDA d : d <= end_dt)
             future_e == SelectSeq(available_dates, LAMBDA d : d > end_dt)
             closest_end == IF past_e # <<>> THEN SeqMax(past_e)
                            ELSE IF future_e # <<>> THEN SeqMin(future_e)
                            ELSE NoDate
             end_warning == past_e = <<>> /\ future_e # <<>>
         IN IF closest_start = NoDate \/ closest_end = NoDate
            THEN [raised |-> "no_range", closest_start |-> closest_start,
                  closest_end |-> closest_end, warnings |-> <<>>]
            ELSE [raised |-> "", closest_start |-> closest_start,
                  closest_end |-> closest_end,
                  warnings |-> (IF start_warning THEN <<"start">> ELSE <<>>)
                               \o (IF end_warning THEN <<"end">> ELSE <<>>)]

\* load_stock_data returning an empty list instead of raising
load_stock_data_NoRaise(files, start_dt, end_dt) ==
    LET available_dates == get_available_dates(files)
        target_dates == SelectSeq(available_dates, LAMBDA d : start_dt <= d /\ d <= end_dt)
    IN [raised |-> "", loaded |-> SelectSeq(target_dates, LAMBDA d : d \in files)]

\* load_stock_data: the dates of the range whose json is loaded, or the raise
load_stock_data(files, start_dt, end_dt) ==
    LET available_dates == get_available_dates(files)
        target_dates == SelectSeq(available_dates, LAMBDA d : start_dt <= d /\ d <= end_dt)
    IN IF target_dates = <<>>
       THEN [raised |-> "no_data_in_range", loaded |-> <<>>]
       ELSE [raised |-> "", loaded |-> SelectSeq(target_dates, LAMBDA d : d \in files)]

\* parse_tdcc_data: the pivot by date of the loaded entries, one row per date
parse_tdcc_data(stock_data) ==
    LET order == sorted({stock_data[i] : i \in 1..Len(stock_data)})
    IN [i \in 1..Len(order) |->
            [date    |-> order[i],
             people  |-> SnapshotOf(order[i]).people,
             shares  |-> SnapshotOf(order[i]).shares,
             percent |-> SnapshotOf(order[i]).percent]]

\* process_query, line 423: validate_inputs
SDQ_Validate ==
    /\ entry = "sdq" /\ pc = "start"
    /\ IF reqStart >= reqEnd
       THEN outcome' = "invalid_range" /\ pc' = "done"
       ELSE IF ~dirExists
       THEN outcome' = "no_dir" /\ pc' = "done"
       ELSE outcome' = outcome /\ pc' = "sdq_find"
    /\ UNCHANGED <<entry, dirExists, archive, reqStart, reqEnd, dates, startUse,
                   endUse, warnings, selected, table, written>>
    /\ UNCHANGED <<ivars, cvars, avars>>
    /\ UNCHANGED xvars

\* process_query, lines 426-432: find_closest_dates and the printed warnings
SDQ_FindClosestDates ==
    /\ entry = "sdq" /\ pc = "sdq_find"
    /\ LET r == find_closest_dates(get_available_dates(archive), reqStart, reqEnd)
       IN /\ dates' = get_available_dates(archive)
          /\ startUse' = r.closest_start
          /\ endUse' = r.closest_end
          /\ warnings' = r.warnings
          /\ IF r.raised # ""
             THEN outcome' = r.raised /\ pc' = "done"
             ELSE outcome' = outcome /\ pc' = "sdq_load"
    /\ UNCHANGED <<entry, dirExists, archive, reqStart, reqEnd, selected, table, written>>
    /\ UNCHANGED <<ivars, cvars, avars>>
    /\ UNCHANGED xvars

\* process_query, lines 435-441: load_stock_data on the resolved range
SDQ_LoadStockData ==
    /\ entry = "sdq" /\ pc = "sdq_load"
    /\ LET r == load_stock_data(archive, startUse, endUse)
       IN /\ selected' = r.loaded
          /\ IF r.raised # ""
             THEN outcome' = r.raised /\ pc' = "done"
             ELSE outcome' = outcome /\ pc' = "sdq_parse"
    /\ UNCHANGED <<entry, dirExists, archive, reqStart, reqEnd, dates, startUse,
                   endUse, warnings, table, written>>
    /\ UNCHANGED <<ivars, cvars, avars>>
    /\ UNCHANGED xvars

\* process_query, line 444
SDQ_ParseTdccData ==
    /\ entry = "sdq" /\ pc = "sdq_parse"
    /\ table' = parse_tdcc_data(selected)
    /\ pc' = "sdq_write"
    /\ UNCHANGED <<entry, dirExists, archive, reqStart, reqEnd, dates, startUse,
                   endUse, warnings, selected, written, outcome>>
    /\ UNCHANGED <<ivars, cvars, avars>>
    /\ UNCHANGED xvars

\* process_query, lines 447-468: the k-line fetch and the workbook
SDQ_CreateOverlayCharts ==
    /\ entry = "sdq" /\ pc = "sdq_write"
    /\ written' = TRUE
    /\ outcome' = "ok"
    /\ pc' = "done"
    /\ UNCHANGED <<entry, dirExists, archive, reqStart, reqEnd, dates, startUse,
                   endUse, warnings, selected, table>>
    /\ UNCHANGED <<ivars, cvars, avars>>
    /\ UNCHANGED xvars

\* ============================================== program2_query_and_organize
\* list_available_dates: [] without the directory, else the sorted dated csv files
org_list_available_dates(dir, files) == IF ~dir THEN <<>> ELSE sorted(files)

\* select_dates_between: the Selection record
select_dates_between(available, s, e) ==
    LET a == available
        in_range == SelectSeq(a, LAMBDA d : s <= d /\ d <= e)
        after == SelectSeq(a, LAMBDA d : d >= s)
        first == SeqMin(after)
        chosen_fwd == IF in_range # <<>> THEN in_range
                      ELSE IF after # <<>>
                      THEN SelectSeq(a, LAMBDA d : first <= d /\ d <= e)
                      ELSE <<>>
        forward == in_range = <<>> /\ after # <<>>
        before == SelectSeq(a, LAMBDA d : d <= s)
        last == SeqMax(before)
        use_before == in_range = <<>> /\ chosen_fwd = <<>> /\ before # <<>>
        chosen == IF use_before
                  THEN SelectSeq(a, LAMBDA d : last <= d /\ d <= e)
                  ELSE chosen_fwd
    IN [dates |-> chosen, forward_fallback_used |-> forward,
        backward_fallback_used |-> use_before]

\* read_local_frames: the selected dates whose csv is a file
read_local_frames(files, ds) == SelectSeq(ds, LAMBDA d : d \in files)

\* build_tables: the rows of every frame in date order; the archive csv has the
\* columns bucket, holders, shares_ratio, so "shares" falls back to "holders"
org_build_tables(frames) ==
    LET order == sorted({frames[i] : i \in 1..Len(frames)})
    IN [i \in 1..Len(order) |->
            [date    |-> order[i],
             people  |-> SnapshotOf(order[i]).people,
             shares  |-> SnapshotOf(order[i]).people,
             percent |-> SnapshotOf(order[i]).percent]]

\* main, lines 245-248
ORG_ListDates ==
    /\ entry = "organize" /\ pc = "start"
    /\ LET available == org_list_available_dates(dirExists, archive)
       IN /\ dates' = available
          /\ IF available = <<>>
             THEN outcome' = "no_data" /\ pc' = "done"
             ELSE outcome' = outcome /\ pc' = "org_select"
    /\ UNCHANGED <<entry, dirExists, archive, reqStart, reqEnd, startUse,
                   endUse, warnings, selected, table, written>>
    /\ UNCHANGED <<ivars, cvars, avars>>
    /\ UNCHANGED xvars

\* main, lines 250-255
ORG_Select ==
    /\ entry = "organize" /\ pc = "org_select"
    /\ LET sel == select_dates_between(dates, reqStart, reqEnd)
       IN /\ selected' = sel.dates
          /\ warnings' = (IF sel.forward_fallback_used THEN <<"forward">> ELSE <<>>)
                         \o (IF sel.backward_fallback_used THEN <<"backward">> ELSE <<>>)
    /\ pc' = "org_read"
    /\ UNCHANGED <<entry, dirExists, archive, reqStart, reqEnd, dates, startUse,
                   endUse, table, written, outcome>>
    /\ UNCHANGED <<ivars, cvars, avars>>
    /\ UNCHANGED xvars

\* main, lines 257-263: the frames, the empty check, build_tables
ORG_ReadFrames ==
    /\ entry = "organize" /\ pc = "org_read"
    /\ LET frames == read_local_frames(archive, selected)
       IN IF frames = <<>>
          THEN outcome' = "no_frames" /\ pc' = "done" /\ table' = table
          ELSE outcome' = outcome /\ pc' = "org_write" /\ table' = org_build_tables(frames)
    /\ UNCHANGED <<entry, dirExists, archive, reqStart, reqEnd, dates, startUse,
                   endUse, warnings, selected, written>>
    /\ UNCHANGED <<ivars, cvars, avars>>
    /\ UNCHANGED xvars

\* main, lines 265-280: the k-line range is sel.dates[0] .. sel.dates[-1]
ORG_Write ==
    /\ entry = "organize" /\ pc = "org_write"
    /\ startUse' = selected[1]
    /\ endUse' = selected[Len(selected)]
    /\ written' = TRUE
    /\ outcome' = "ok"
    /\ pc' = "done"
    /\ UNCHANGED <<entry, dirExists, archive, reqStart, reqEnd, dates, warnings,
                   selected, table>>
    /\ UNCHANGED <<ivars, cvars, avars>>
    /\ UNCHANGED xvars

\* ================================================== prog2_query_and_overlay
\* tdcc_utils.parse_date_any returns a date: dateparser.parse(...).date()
parse_date_any(date_text) == [kind |-> "date", day |-> date_text]

\* only a datetime has the method .date(); on a date the call raises AttributeError
has_date_method(v) == v.kind = "datetime"

\* main, lines 197-198: main calls .date() on what parse_date_any returns
OV_ParseArgs ==
    /\ entry = "overlay" /\ pc = "start"
    /\ IF has_date_method(parse_date_any(reqStart))
       THEN outcome' = outcome /\ pc' = "ov_records"
       ELSE outcome' = "attribute_error" /\ pc' = "done"
    /\ UNCHANGED <<entry, dirExists, archive, reqStart, reqEnd, dates, startUse,
                   endUse, warnings, selected, table, written>>
    /\ UNCHANGED <<ivars, cvars, avars>>
    /\ UNCHANGED xvars

\* Python None for an Optional[int]
NoIndex == -1

\* nearest_index_by_date falling back to the first record, not the last, when
\* no date >= target exists
nearest_index_by_date_FallbackFirst(ds, target, prefer_ge) ==
    IF ds = <<>> THEN NoIndex
    ELSE IF prefer_ge
    THEN LET hits == {i \in 1..Len(ds) : ds[i] >= target}
         IN IF hits # {}
            THEN (CHOOSE i \in hits : \A j \in hits : i <= j) - 1
            ELSE 0
    ELSE LET hits == {i \in 1..Len(ds) : ds[i] <= target}
         IN IF hits # {}
            THEN (CHOOSE i \in hits : \A j \in hits : i >= j) - 1
            ELSE 0

\* nearest_index_by_date: a 0-based index into dates
nearest_index_by_date(ds, target, prefer_ge) ==
    IF ds = <<>> THEN NoIndex
    ELSE IF prefer_ge
    THEN LET hits == {i \in 1..Len(ds) : ds[i] >= target}
         IN IF hits # {}
            THEN (CHOOSE i \in hits : \A j \in hits : i <= j) - 1
            ELSE Len(ds) - 1
    ELSE LET hits == {i \in 1..Len(ds) : ds[i] <= target}
         IN IF hits # {}
            THEN (CHOOSE i \in hits : \A j \in hits : i >= j) - 1
            ELSE 0

\* Python slice records[a : b] of 0-based indices a, b >= 0
slice(s, a, b) ==
    LET hi == IF b > Len(s) THEN Len(s) ELSE b
    IN IF a >= hi THEN <<>> ELSE [i \in 1..(hi - a) |-> s[a + i]]

\* build_tables: one row per record, indexed and sorted by the record's date
ov_build_tables(records) ==
    LET order == sorted({records[i] : i \in 1..Len(records)})
    IN [i \in 1..Len(order) |->
            [date    |-> order[i],
             people  |-> SnapshotOf(order[i]).people,
             shares  |-> SnapshotOf(order[i]).shares,
             percent |-> SnapshotOf(order[i]).percent]]

\* main, lines 201-204: the record list is main's input here, as the list of its dates
OV_CheckRecords ==
    /\ entry = "overlay" /\ pc = "ov_records"
    /\ IF dates = <<>>
       THEN outcome' = "no_data" /\ pc' = "done"
       ELSE outcome' = outcome /\ pc' = "ov_resolve"
    /\ UNCHANGED <<entry, dirExists, archive, reqStart, reqEnd, dates, startUse,
                   endUse, warnings, selected, table, written>>
    /\ UNCHANGED <<ivars, cvars, avars>>
    /\ UNCHANGED xvars

\* main, lines 205-211: both indices, both with prefer_ge=True, and the warnings
OV_Resolve ==
    /\ entry = "overlay" /\ pc = "ov_resolve"
    /\ LET si == nearest_index_by_date(dates, reqStart, TRUE)
           ei == nearest_index_by_date(dates, reqEnd, TRUE)
       IN /\ start_idx' = si
          /\ end_idx' = ei
          /\ startUse' = dates[si + 1]
          /\ endUse' = dates[ei + 1]
          /\ warnings' = (IF dates[si + 1] < reqStart THEN <<"start">> ELSE <<>>)
                         \o (IF dates[ei + 1] > reqEnd THEN <<"end">> ELSE <<>>)
    /\ pc' = "ov_build"
    /\ UNCHANGED <<entry, dirExists, archive, reqStart, reqEnd, dates, selected,
                   table, written, outcome, cvars, avars>>
    /\ UNCHANGED xvars

\* main, lines 213-214: the slice and build_tables, which raises on an empty slice
OV_BuildTables ==
    /\ entry = "overlay" /\ pc = "ov_build"
    /\ LET slice_records == slice(dates, start_idx, end_idx + 1)
       IN /\ selected' = slice_records
          /\ IF slice_records = <<>>
             THEN outcome' = "no_records" /\ pc' = "done" /\ table' = table
             ELSE outcome' = outcome /\ pc' = "ov_write"
                  /\ table' = ov_build_tables(slice_records)
    /\ UNCHANGED <<entry, dirExists, archive, reqStart, reqEnd, dates, startUse,
                   endUse, warnings, written, ivars, cvars, avars>>
    /\ UNCHANGED xvars

\* main, lines 216-237: the simulated k-line and the workbook
OV_Write ==
    /\ entry = "overlay" /\ pc = "ov_write"
    /\ written' = TRUE
    /\ outcome' = "ok"
    /\ pc' = "done"
    /\ UNCHANGED <<entry, dirExists, archive, reqStart, reqEnd, dates, startUse,
                   endUse, warnings, selected, table, ivars, cvars, avars>>
    /\ UNCHANGED xvars

\* ================================================ program3_analyze_and_plot
\* float("inf"): the largest machine integer, above every finite value of the model
Inf == 2147483647

\* the 15 bucket labels the crawler writes (tdcc_crawler.DEFAULT_TDCC_BINS)
DEFAULT_TDCC_BINS ==
    << <<"1", "-", "9", "9", "9">>,
       <<"1", ",", "0", "0", "0", "-", "5", ",", "0", "0", "0">>,
       <<"5", ",", "0", "0", "1", "-", "1", "0", ",", "0", "0", "0">>,
       <<"1", "0", ",", "0", "0", "1", "-", "1", "5", ",", "0", "0", "0">>,
       <<"1", "5", ",", "0", "0", "1", "-", "2", "0", ",", "0", "0", "0">>,
       <<"2", "0", ",", "0", "0", "1", "-", "3", "0", ",", "0", "0", "0">>,
       <<"3", "0", ",", "0", "0", "1", "-", "4", "0", ",", "0", "0", "0">>,
       <<"4", "0", ",", "0", "0", "1", "-", "5", "0", ",", "0", "0", "0">>,
       <<"5", "0", ",", "0", "0", "1", "-", "1", "0", "0", ",", "0", "0", "0">>,
       <<"1", "0", "0", ",", "0", "0", "1", "-", "2", "0", "0", ",", "0", "0", "0">>,
       <<"2", "0", "0", ",", "0", "0", "1", "-", "4", "0", "0", ",", "0", "0", "0">>,
       <<"4", "0", "0", ",", "0", "0", "1", "-", "6", "0", "0", ",", "0", "0", "0">>,
       <<"6", "0", "0", ",", "0", "0", "1", "-", "8", "0", "0", ",", "0", "0", "0">>,
       <<"8", "0", "0", ",", "0", "0", "1", "-", "1", ",", "0", "0", "0", ",", "0", "0", "0">>,
       <<"1", ",", "0", "0", "0", ",", "0", "0", "1", "+">> >>

\* further labels: the forms the parser's comment names, and other column names;
\* a character outside ASCII is written by name: WAN (U+842C), YI SHANG (U+4EE5
\* U+4E0A, "and above"), ENDASH (U+2013)
OtherLabels ==
    { <<">", "=", " ", "1", ",", "0", "0", "0", ",", "0", "0", "1">>,
      <<">", "1", "0", "0", "0", "0", "0", "1">>,
      <<"1", "~", "5", ",", "0", "0", "0">>,
      <<"1", "0", "0", "WAN", "YI", "SHANG">>,
      <<"1", ",", "0", "0", "0", ",", "0", "0", "1", "YI", "SHANG">>,
      <<"1", "0", "0", "0", "0", "0", "1">>,
      <<" ", "1", " ", "-", " ", "9", "9", "9", " ">>,
      <<"L", "1", "5">> }

Labels == {DEFAULT_TDCC_BINS[i] : i \in 1..Len(DEFAULT_TDCC_BINS)} \cup OtherLabels

Digits == <<"0", "1", "2", "3", "4", "5", "6", "7", "8", "9">>
IsDigit(c) == \E i \in 1..10 : Digits[i] = c
DigitVal(c) == (CHOOSE i \in 1..10 : Digits[i] = c) - 1
IsSpace(c) == c = " "

RECURSIVE replace_comma(_)
\* str.replace(",", "")
replace_comma(s) ==
    IF s = <<>> THEN <<>>
    ELSE IF Head(s) = "," THEN replace_comma(Tail(s))
    ELSE <<Head(s)>> \o replace_comma(Tail(s))

RECURSIVE replace_wan(_)
\* str.replace(U+842C, "0000"), the character "wan" (ten thousand)
replace_wan(s) ==
    IF s = <<>> THEN <<>>
    ELSE IF Head(s) = "WAN" THEN <<"0", "0", "0", "0">> \o replace_wan(Tail(s))
    ELSE <<Head(s)>> \o replace_wan(Tail(s))

RECURSIVE lstrip(_)
lstrip(s) == IF s # <<>> /\ IsSpace(Head(s)) THEN lstrip(Tail(s)) ELSE s
RECURSIVE rstrip(_)
rstrip(s) == IF s # <<>> /\ IsSpace(s[Len(s)]) THEN rstrip(SubSeq(s, 1, Len(s) - 1)) ELSE s
\* str.strip()
strip(s) == rstrip(lstrip(s))

RECURSIVE DigitsEnd(_, _)
\* \d+ from position i: the position after the run of digits (i itself when none)
DigitsEnd(s, i) == IF i <= Len(s) /\ IsDigit(s[i]) THEN DigitsEnd(s, i + 1) ELSE i

RECURSIVE SpacesEnd(_, _)
\* \s* from position i
SpacesEnd(s, i) == IF i <= Len(s) /\ IsSpace(s[i]) THEN SpacesEnd(s, i + 1) ELSE i

RECURSIVE NumValue(_, _, _)
\* float() of the digits s[i..e-1]; the labels of the model hold no decimal
\* point, so the optional group (?:\.\d+)? of the patterns never takes part
NumValue(s, i, e) == IF e <= i THEN 0 ELSE NumValue(s, i, e - 1) * 10 + DigitVal(s[e - 1])

\* infer_bucket_range: the (low, high) of a label, (0, 0) when no pattern matches
infer_bucket_range(bucket_label) ==
    LET lbl == strip(replace_wan(replace_comma(bucket_label)))
        n == Len(lbl)
        \* ^>=?\s*(\d+)$
        g1 == IF n >= 2 /\ lbl[2] = "=" THEN 3 ELSE 2
        a1 == SpacesEnd(lbl, g1)
        e1 == DigitsEnd(lbl, a1)
        m1 == n >= 1 /\ lbl[1] = ">" /\ e1 > a1 /\ e1 = n + 1
        \* ^(\d+)\s*[-~ENDASH]\s*(\d+)$
        e2 == DigitsEnd(lbl, 1)
        p2 == SpacesEnd(lbl, e2)
        a2 == SpacesEnd(lbl, p2 + 1)
        f2 == DigitsEnd(lbl, a2)
        m2 == /\ e2 > 1 /\ p2 <= n /\ lbl[p2] \in {"-", "~", "ENDASH"}
              /\ f2 > a2 /\ f2 = n + 1
        \* ^(\d+)$
        m3 == e2 > 1 /\ e2 = n + 1
    IN IF m1 THEN <<NumValue(lbl, a1, e1), Inf>>
       ELSE IF m2 THEN <<NumValue(lbl, 1, e2), NumValue(lbl, a2, f2)>>
       ELSE IF m3 THEN <<NumValue(lbl, 1, e2), NumValue(lbl, 1, e2)>>
       ELSE <<0, 0>>

RECURSIVE last_band(_, _, _, _)
\* first_band taking the last band that holds the range instead of the first
last_band(custom, low, high, idx) ==
    LET rest == IF idx > Len(custom) THEN 0 ELSE last_band(custom, low, high, idx + 1)
    IN IF idx > Len(custom) THEN 0
       ELSE IF rest > 0 THEN rest
       ELSE IF low >= custom[idx][1] /\ high <= custom[idx][2] THEN idx
       ELSE 0

RECURSIVE first_band(_, _, _, _)
\* the loop of lines 95-97: the 1-based number of the first band holding the range, 0 when none
first_band(custom, low, high, idx) ==
    IF idx > Len(custom) THEN 0
    ELSE IF low >= custom[idx][1] /\ high <= custom[idx][2] THEN idx
    ELSE first_band(custom, low, high, idx + 1)

\* classify_bucket without the return of line 98: nothing is returned when no
\* band holds the range
classify_bucket_NoBandOther(range_tuple, cs) ==
    LET low == range_tuple[1]
        high == range_tuple[2]
    IN IF cs.mode = "quantity"
       THEN IF high <= 400000 THEN "retail"
            ELSE IF low > 1000000 THEN "whale"
            ELSE "mid"
       ELSE IF cs.mode = "amount"
       THEN LET price == cs.price
                low_amt == low * price
                high_amt == (IF high # Inf THEN high ELSE low) * price
            IN IF high_amt < 5000000 THEN "retail"
               ELSE IF low_amt > 30000000 THEN "whale"
               ELSE IF 5000000 <= high_amt /\ high_amt <= 10000000 THEN "small_mid"
               ELSE "mid"
       ELSE IF cs.mode = "custom" /\ cs.custom # <<>>
       THEN LET b == first_band(cs.custom, low, high, 1)
            IN IF b > 0 THEN "band_" \o ToString(b) ELSE ""
       ELSE "unknown"

\* classify_bucket with an infinite upper amount for the open-ended bucket
classify_bucket_InfAmount(range_tuple, cs) ==
    LET low == range_tuple[1]
        high == range_tuple[2]
    IN IF cs.mode = "quantity"
       THEN IF high <= 400000 THEN "retail"
            ELSE IF low > 1000000 THEN "whale"
            ELSE "mid"
       ELSE IF cs.mode = "amount"
       THEN LET price == cs.price
                low_amt == low * price
                high_amt == IF high # Inf THEN high * price ELSE Inf
            IN IF high_amt < 5000000 THEN "retail"
               ELSE IF low_amt > 30000000 THEN "whale"
               ELSE IF 5000000 <= high_amt /\ high_amt <= 10000000 THEN "small_mid"
               ELSE "mid"
       ELSE IF cs.mode = "custom" /\ cs.custom # <<>>
       THEN LET b == first_band(cs.custom, low, high, 1)
            IN IF b > 0 THEN "band_" \o ToString(b) ELSE "band_other"
       ELSE "unknown"

\* classify_bucket: cs is the CategorySpec; a price of 0 stands for None and 0.0 alike
classify_bucket(range_tuple, cs) ==
    LET low == range_tuple[1]
        high == range_tuple[2]
    IN IF cs.mode = "quantity"
       THEN IF high <= 400000 THEN "retail"
            ELSE IF low > 1000000 THEN "whale"
            ELSE "mid"
       ELSE IF cs.mode = "amount"
       THEN LET price == cs.price
                low_amt == low * price
                high_amt == (IF high # Inf THEN high ELSE low) * price
            IN IF high_amt < 5000000 THEN "retail"
               ELSE IF low_amt > 30000000 THEN "whale"
               ELSE IF 5000000 <= high_amt /\ high_amt <= 10000000 THEN "small_mid"
               ELSE "mid"
       ELSE IF cs.mode = "custom" /\ cs.custom # <<>>
       THEN LET b == first_band(cs.custom, low, high, 1)
            IN IF b > 0 THEN "band_" \o ToString(b) ELSE "band_other"
       ELSE "unknown"

\* analyze.transform, line 160: the range of one column label
InferBucketRange ==
    /\ cpc = "infer"
    /\ rng' = infer_bucket_range(label)
    /\ cpc' = "classify"
    /\ UNCHANGED <<label, spec, category, qvars, ivars, avars>>
    /\ UNCHANGED xvars

\* analyze.transform, lines 161-162: the category of the column
ClassifyBucket ==
    /\ cpc = "classify"
    /\ category' = classify_bucket(rng, spec)
    /\ cpc' = "done"
    /\ UNCHANGED <<label, spec, rng, qvars, ivars, avars>>
    /\ UNCHANGED xvars

\* ================================================================= requests
Entries == {"qa", "sdq", "organize", "overlay"}

\* no analysis program is running
AIdle ==
    /\ prog = "none"
    /\ args = <<>>
    /\ columns = <<>>
    /\ df = <<>>
    /\ categories = <<>>
    /\ grouped = <<>>
    /\ tablesRead = FALSE
    /\ filesOut = {}
    /\ exit = "running"
    /\ apc = "idle"

\* no classification is running
CIdle ==
    /\ label = <<>>
    /\ spec = [mode |-> "quantity", price |-> 0, custom |-> <<>>]
    /\ rng = <<0, 0>>
    /\ category = ""
    /\ cpc = "idle"

\* a request as a program receives it: the archive on disk and the two dates
QInit ==
    /\ entry \in Entries
    /\ archive \in SUBSET WeeklyDays
    /\ dirExists \in BOOLEAN
    /\ (archive # {} => dirExists)
    /\ reqStart \in Days
    /\ reqEnd \in Days
    /\ pc = "start"
    /\ dates = <<>>
    /\ startUse = NoDate
    /\ endUse = NoDate
    /\ warnings = <<>>
    /\ selected = <<>>
    /\ table = <<>>
    /\ written = FALSE
    /\ outcome = "running"
    /\ start_idx = NoIndex
    /\ end_idx = NoIndex

Init == QInit /\ CIdle /\ AIdle /\ XIdle

Next ==
    \/ QA_ListDates
    \/ QA_Resolve
    \/ QA_BuildPivots
    \/ QA_WriteExcel
    \/ SDQ_Validate
    \/ SDQ_FindClosestDates
    \/ SDQ_LoadStockData
    \/ SDQ_ParseTdccData
    \/ SDQ_CreateOverlayCharts
    \/ ORG_ListDates
    \/ ORG_Select
    \/ ORG_ReadFrames
    \/ ORG_Write
    \/ OV_ParseArgs

Spec == Init /\ [][Next]_vars

\* ------------------------------------------------------------------------
\* query_and_aggregate.main on an archive whose csv files may lack a column
InitPivots ==
    /\ QInit
    /\ entry = "qa"
    /\ CIdle /\ AIdle
    /\ malformed \in SUBSET archive
    /\ PIdle /\ BIdle /\ RIdle /\ KIdle /\ FIdle

NextPivots ==
    \/ QA_ListDates
    \/ QA_Resolve
    \/ QA_BuildPivots
    \/ QA_WriteExcel

SpecPivots == InitPivots /\ [][NextPivots]_vars

\* ------------------------------------------------------------------------
\* prog2_query_and_overlay.main from line 201 on: the sorted record list and
\* the two requested dates are the inputs
InitOverlay ==
    /\ entry = "overlay"
    /\ archive \in SUBSET WeeklyDays
    /\ dirExists = TRUE
    /\ reqStart \in Days
    /\ reqEnd \in Days
    /\ pc = "ov_records"
    /\ dates = sorted(archive)
    /\ startUse = NoDate
    /\ endUse = NoDate
    /\ warnings = <<>>
    /\ selected = <<>>
    /\ table = <<>>
    /\ written = FALSE
    /\ outcome = "running"
    /\ start_idx = NoIndex
    /\ end_idx = NoIndex
    /\ CIdle
    /\ AIdle
    /\ XIdle

NextOverlay ==
    \/ OV_CheckRecords
    \/ OV_Resolve
    \/ OV_BuildTables
    \/ OV_Write

SpecOverlay == InitOverlay /\ [][NextOverlay]_vars

\* ------------------------------------------------------------------------
\* the classification of one column: a label and a CategorySpec are the inputs
MaxPrice == 31

Modes == {"quantity", "amount", "custom"}
Prices == 0..MaxPrice
CustomChoices ==
    { <<>>,
      << <<0, 400000>>, <<400001, 1000000>> >>,
      << <<1, 7000>>, <<7001, 20000>> >>,
      << <<1, 1000000>>, <<1, 5000>>, <<1000001, Inf>> >> }

\* no request is running
QIdle ==
    /\ entry = "none"
    /\ archive = {}
    /\ dirExists = FALSE
    /\ reqStart = 1
    /\ reqEnd = 1
    /\ pc = "idle"
    /\ dates = <<>>
    /\ startUse = NoDate
    /\ endUse = NoDate
    /\ warnings = <<>>
    /\ selected = <<>>
    /\ table = <<>>
    /\ written = FALSE
    /\ outcome = "running"
    /\ start_idx = NoIndex
    /\ end_idx = NoIndex

InitClassify ==
    /\ QIdle
    /\ label \in Labels
    /\ spec \in [mode : Modes, price : Prices, custom : CustomChoices]
    /\ rng = <<0, 0>>
    /\ category = ""
    /\ cpc = "infer"
    /\ AIdle
    /\ XIdle

NextClassify ==
    \/ InferBucketRange
    \/ ClassifyBucket

SpecClassify == InitClassify /\ [][NextClassify]_vars

\* ========================================================================
\* The analysis programs: program3_analyze_and_plot, program3_analysis_
\* visualization and analyze_and_plot
\* ========================================================================
\* A table is a list of column labels and a list of rows, one row per date;
\* a cell is <<v>> for the number v and <<>> for "no value" (NaN).
MaxVal == 1

Cells == {<<>>} \cup {<<v>> : v \in 0..MaxVal}

RECURSIVE nansum_DropLast(_)
\* nansum that leaves out the last cell
nansum_DropLast(cells) ==
    IF Len(cells) <= 1 THEN 0
    ELSE (IF Head(cells) = <<>> THEN 0 ELSE Head(cells)[1]) + nansum_DropLast(Tail(cells))

RECURSIVE nansum(_)
\* pandas sum() of a list of cells, skipna=True and min_count=0: the cells
\* without a value are left out, and the sum of nothing is 0
nansum(cells) ==
    IF cells = <<>> THEN 0
    ELSE (IF Head(cells) = <<>> THEN 0 ELSE Head(cells)[1]) + nansum(Tail(cells))


\* the category names classify_bucket can return, in the order of Python's
\* string comparison (by code point)
SortedNames ==
    <<"band_1", "band_2", "band_3", "band_other", "mid", "retail", "small_mid",
      "unknown", "whale">>

\* a < b for two strings
str_lt(a, b) ==
    (CHOOSE i \in 1..Len(SortedNames) : SortedNames[i] = a)
        < (CHOOSE i \in 1..Len(SortedNames) : SortedNames[i] = b)

RECURSIVE str_sorted_Descending(_)
\* the names of a set in descending order
str_sorted_Descending(S) ==
    IF S = {} THEN <<>>
    ELSE LET m == CHOOSE x \in S : \A y \in S : x = y \/ str_lt(y, x)
         IN <<m>> \o str_sorted_Descending(S \ {m})

RECURSIVE str_sorted(_)
\* the names of a set in ascending order: the key order of groupby(sort=True)
\* and of sort_index(axis=1)
str_sorted(S) ==
    IF S = {} THEN <<>>
    ELSE LET m == CHOOSE x \in S : \A y \in S : x = y \/ str_lt(x, y)
         IN <<m>> \o str_sorted(S \ {m})


\* ---------------------------------------- program3_analyze_and_plot.analyze
RECURSIVE col_to_cat(_, _)
\* lines 158-162: the category of every column
col_to_cat(cols, cs) ==
    IF cols = <<>> THEN <<>>
    ELSE <<classify_bucket(infer_bucket_range(Head(cols)), cs)>> \o col_to_cat(Tail(cols), cs)

RECURSIVE feeding(_, _, _)
\* the cells of one row that feed the category cat
feeding(row, cats, cat) ==
    IF row = <<>> THEN <<>>
    ELSE (IF Head(cats) = cat THEN <<Head(row)>> ELSE <<>>)
             \o feeding(Tail(row), Tail(cats), cat)

\* df.groupby(mapping, axis=1).sum().sort_index(axis=1): the sum of the
\* columns of each key, the keys in ascending order
group_sum(rows, cats) ==
    LET keys == str_sorted({cats[i] : i \in 1..Len(cats)})
    IN [cols |-> keys,
        rows |-> [r \in 1..Len(rows) |->
                    [k \in 1..Len(keys) |-> <<nansum(feeding(rows[r], cats, keys[k]))>>]]]

\* analyze.transform: the group-sum of the columns by category, the columns
\* of the result in ascending order of the category name
transform(cols, rows, cs) == group_sum(rows, col_to_cat(cols, cs))

\* ------------------------- program3_analysis_visualization (the visualizer)
\* the 15 levels of StockAnalysisVisualizer.standard_levels
standard_levels ==
    [i \in 1..NumBuckets |->
        IF i < NumBuckets THEN DEFAULT_TDCC_BINS[i]
        ELSE <<"1", ",", "0", "0", "0", ",", "0", "0", "1", "YI", "SHANG">>]

RECURSIVE replace_char(_, _)
\* str.replace(c, "")
replace_char(s, c) ==
    IF s = <<>> THEN <<>>
    ELSE IF Head(s) = c THEN replace_char(Tail(s), c)
    ELSE <<Head(s)>> \o replace_char(Tail(s), c)

RECURSIVE replace_yishang(_)
\* str.replace(U+4EE5 U+4E0A, ""), the two characters of "and above"
replace_yishang(s) ==
    IF Len(s) < 2 THEN s
    ELSE IF s[1] = "YI" /\ s[2] = "SHANG" THEN replace_yishang(SubSeq(s, 3, Len(s)))
    ELSE <<Head(s)>> \o replace_yishang(Tail(s))

\* c in s
contains_char(s, c) == \E i \in 1..Len(s) : s[i] = c

RECURSIVE split(_, _)
\* str.split(sep) for a one-character separator
split(s, sep) ==
    IF ~contains_char(s, sep) THEN <<s>>
    ELSE LET i == CHOOSE k \in 1..Len(s) : s[k] = sep /\ \A j \in 1..(k - 1) : s[j] # sep
         IN <<SubSeq(s, 1, i - 1)>> \o split(SubSeq(s, i + 1, Len(s)), sep)

\* int(s) succeeds: s is a run of digits (the labels of the model hold no
\* sign and no underscore)
is_int(s) == s # <<>> /\ \A i \in 1..Len(s) : IsDigit(s[i])

\* parse_level_range: (min, max) of a level, (0, 0) when int() raises
parse_level_range(level) ==
    LET l == replace_char(replace_char(level, ","), " ")
        open == replace_yishang(l)
        parts == split(l, "-")
    IN IF open # l
       THEN IF is_int(open) THEN <<NumValue(open, 1, Len(open) + 1), Inf>> ELSE <<0, 0>>
       ELSE IF contains_char(l, "-")
       THEN IF is_int(parts[1]) /\ is_int(parts[2])
            THEN <<NumValue(parts[1], 1, Len(parts[1]) + 1),
                   NumValue(parts[2], 1, Len(parts[2]) + 1)>>
            ELSE <<0, 0>>
       ELSE IF is_int(l) THEN <<NumValue(l, 1, Len(l) + 1), NumValue(l, 1, Len(l) + 1)>>
       ELSE <<0, 0>>

\* categorize_by_shares, lines 134-141: the key whose list takes the level
shares_category(level) ==
    LET r == parse_level_range(level)
    IN IF r[2] <= 400000 THEN "SANHU"
       ELSE IF r[1] <= 1000000 /\ r[2] >= 400001 THEN "ZHONGSHIHU"
       ELSE IF r[1] > 1000000 THEN "DAHU"
       ELSE "none"

RECURSIVE shares_levels(_, _)
\* the list of one key after the loop: the levels appended to it, in order
shares_levels(levels, name) ==
    IF levels = <<>> THEN <<>>
    ELSE (IF shares_category(Head(levels)) = name THEN <<Head(levels)>> ELSE <<>>)
             \o shares_levels(Tail(levels), name)

\* categorize_by_shares: the dict as the list of its items, in insertion
\* order; the names stand for the Chinese keys (retail, middle, large holders)
categorize_by_shares(levels) ==
    << [name |-> "SANHU", levels |-> shares_levels(levels, "SANHU")],
       [name |-> "ZHONGSHIHU", levels |-> shares_levels(levels, "ZHONGSHIHU")],
       [name |-> "DAHU", levels |-> shares_levels(levels, "DAHU")] >>

\* categorize_by_amount, lines 168-179: the key whose list takes the level
amount_category(level, stock_price) ==
    LET r == parse_level_range(level)
        min_amount == r[1] * stock_price
        max_amount == IF r[2] # Inf THEN r[2] * stock_price ELSE Inf
    IN IF max_amount <= 5000000 THEN "SANHU"
       ELSE IF min_amount <= 10000000 /\ max_amount >= 5000001 THEN "XIAOZHONGSHIHU"
       ELSE IF min_amount <= 30000000 /\ max_amount >= 10000001 THEN "ZHONGSHIHU"
       ELSE IF min_amount > 30000000 THEN "DAHU"
       ELSE "none"

RECURSIVE amount_levels(_, _, _)
amount_levels(levels, stock_price, name) ==
    IF levels = <<>> THEN <<>>
    ELSE (IF amount_category(Head(levels), stock_price) = name THEN <<Head(levels)>> ELSE <<>>)
             \o amount_levels(Tail(levels), stock_price, name)

\* categorize_by_amount
categorize_by_amount(levels, stock_price) ==
    << [name |-> "SANHU", levels |-> amount_levels(levels, stock_price, "SANHU")],
       [name |-> "XIAOZHONGSHIHU", levels |-> amount_levels(levels, stock_price, "XIAOZHONGSHIHU")],
       [name |-> "ZHONGSHIHU", levels |-> amount_levels(levels, stock_price, "ZHONGSHIHU")],
       [name |-> "DAHU", levels |-> amount_levels(levels, stock_price, "DAHU")] >>

\* the key of a custom range, line 196 (without the thousands separators)
category_name(range) ==
    IF range[2] # Inf THEN ToString(range[1]) \o "-" \o ToString(range[2])
    ELSE ToString(range[1]) \o "YISHANG"

\* the test of lines 203-205: the level touches the range
in_custom_range(level, range) ==
    LET r == parse_level_range(level)
    IN \/ (r[1] >= range[1] /\ r[1] <= range[2])
       \/ (r[2] >= range[1] /\ r[2] <= range[2])
       \/ (r[1] <= range[1] /\ r[2] >= range[2])

RECURSIVE levels_in_range(_, _)
\* the inner loop of lines 199-206
levels_in_range(levels, range) ==
    IF levels = <<>> THEN <<>>
    ELSE (IF in_custom_range(Head(levels), range) THEN <<Head(levels)>> ELSE <<>>)
             \o levels_in_range(Tail(levels), range)

RECURSIVE categorize_custom(_, _)
\* categorize_custom, for ranges with distinct names
categorize_custom(levels, custom_ranges) ==
    IF custom_ranges = <<>> THEN <<>>
    ELSE <<[name |-> category_name(Head(custom_ranges)),
            levels |-> levels_in_range(levels, Head(custom_ranges))]>>
             \o categorize_custom(levels, Tail(custom_ranges))

RECURSIVE matching_cols(_, _, _)
\* line 225: the positions, from i on, of the columns of the table that are
\* among the levels of a category
matching_cols(cols, levels, i) ==
    IF i > Len(cols) THEN <<>>
    ELSE (IF \E j \in 1..Len(levels) : levels[j] = cols[i] THEN <<i>> ELSE <<>>)
             \o matching_cols(cols, levels, i + 1)

RECURSIVE row_sums(_, _, _)
\* line 228: df[matching_cols].sum(axis=1), one cell per row from row r on
row_sums(rows, idx, r) ==
    IF r > Len(rows) THEN <<>>
    ELSE <<nansum([m \in 1..Len(idx) |-> rows[r][idx[m]]])>> \o row_sums(rows, idx, r + 1)

RECURSIVE aggregated_columns(_, _, _)
\* the loop of lines 223-228: the columns of the result, in the order of the dict
aggregated_columns(cols, rows, cats) ==
    IF cats = <<>> THEN <<>>
    ELSE LET idx == matching_cols(cols, Head(cats).levels, 1)
         IN (IF idx # <<>>
             THEN <<[name |-> Head(cats).name, cells |-> row_sums(rows, idx, 1)]>>
             ELSE <<>>)
                \o aggregated_columns(cols, rows, Tail(cats))

\* aggregate_by_category: one column per category that has a column of the
\* table among its levels, holding the row sums of those columns
aggregate_by_category(cols, rows, cats) ==
    LET agg == aggregated_columns(cols, rows, cats)
    IN [cols |-> [n \in 1..Len(agg) |-> agg[n].name],
        rows |-> [r \in 1..Len(rows) |-> [n \in 1..Len(agg) |-> <<agg[n].cells[r]>>]]]

\* -------------------------------------------- the command lines and inputs
\* tables of three columns and two dates: every row of cells on the first
\* date; on the second a row without any value, one with a value missing and
\* a full one
ColumnChoices ==
    { <<DEFAULT_TDCC_BINS[1], DEFAULT_TDCC_BINS[12], DEFAULT_TDCC_BINS[15]>>,
      <<standard_levels[1], standard_levels[3], standard_levels[15]>>,
      <<DEFAULT_TDCC_BINS[11],
        <<">", "=", " ", "1", ",", "0", "0", "0", ",", "0", "0", "1">>,
        <<"L", "1", "5">> >> }
Tables ==
    { <<first, second>> :
        first \in [1..3 -> Cells],
        second \in { << <<>>, <<>>, <<>> >>, << <<1>>, <<>>, <<0>> >>, << <<1>>, <<1>>, <<1>> >> } }

\* CategorySpec values handed to analyze
TransformSpecs ==
    { [mode |-> "quantity", price |-> 0, custom |-> <<>>],
      [mode |-> "amount", price |-> 5, custom |-> <<>>],
      [mode |-> "amount", price |-> 31, custom |-> <<>>] }
    \cup { [mode |-> "custom", price |-> 0, custom |-> c] : c \in CustomChoices }

\* arguments of StockAnalysisVisualizer.run; a stock_price of 0 stands for
\* None and 0.0, an empty custom_ranges for None and []
RunArgs ==
    [stock_price : {0, 5},
     custom_ranges : { <<>>,
                       << <<1, 7000>>, <<7001, 20000>> >>,
                       << <<0, 400000>>, <<400001, 1000000>>, <<1000001, Inf>> >> }]

\* values of --custom / --ranges, character by character; the empty one
\* stands for an absent argument
CustomArgs ==
    { <<>>,
      <<"a", "b", "c">>,
      <<"0", "-", "4", "0", "0", "0", "0", "0", ",", "4", "0", "0", "0", "0", "1", "-", "1", "0", "0", "0", "0", "0", "0">>,
      <<"1", "-", "1", "0", "0", "0", "0", "0", "0", ",", " ", "1", "-", "5", "0", "0", "0", ",", "x">>,
      <<"5", "-">> }

\* ------------------------------------------------- analyze and run, by step
\* analyze, lines 156-170: transform of one table
Transform ==
    /\ prog = "transform" /\ apc = "transform"
    /\ categories' = col_to_cat(columns, spec)
    /\ grouped' = transform(columns, df, spec)
    /\ apc' = "done"
    /\ UNCHANGED <<prog, args, columns, df, tablesRead, filesOut, exit,
                   qvars, ivars, cvars>>
    /\ UNCHANGED xvars

\* export_analysis, lines 346-381: the reduced table of one sheet, and the
\* workbook written when it is not empty
export_analysis(cats, name) ==
    LET aggregated_df == aggregate_by_category(columns, df, cats)
    IN /\ grouped' = aggregated_df
       /\ filesOut' = IF aggregated_df.cols # <<>> THEN filesOut \cup {name} ELSE filesOut

\* StockAnalysisVisualizer.run, lines 410-412
VZ_Shares ==
    /\ prog = "visualizer" /\ apc = "vz_shares"
    /\ LET categories_shares == categorize_by_shares(columns)
       IN /\ categories' = categories_shares
          /\ export_analysis(categories_shares, "shares")
    /\ apc' = "vz_amount"
    /\ UNCHANGED <<prog, args, columns, df, tablesRead, exit, qvars, ivars, cvars>>
    /\ UNCHANGED xvars

\* StockAnalysisVisualizer.run, lines 414-419
VZ_Amount ==
    /\ prog = "visualizer" /\ apc = "vz_amount"
    /\ IF args.stock_price # 0
       THEN LET categories_amount == categorize_by_amount(columns, args.stock_price)
            IN /\ categories' = categories_amount
               /\ export_analysis(categories_amount, "amount")
       ELSE UNCHANGED <<categories, grouped, filesOut>>
    /\ apc' = "vz_custom"
    /\ UNCHANGED <<prog, args, columns, df, tablesRead, exit, qvars, ivars, cvars>>
    /\ UNCHANGED xvars

\* StockAnalysisVisualizer.run, lines 421-426
VZ_Custom ==
    /\ prog = "visualizer" /\ apc = "vz_custom"
    /\ IF args.custom_ranges # <<>>
       THEN LET categories_custom == categorize_custom(columns, args.custom_ranges)
            IN /\ categories' = categories_custom
               /\ export_analysis(categories_custom, "custom")
       ELSE UNCHANGED <<categories, grouped, filesOut>>
    /\ exit' = "ok"
    /\ apc' = "done"
    /\ UNCHANGED <<prog, args, columns, df, tablesRead, qvars, ivars, cvars>>
    /\ UNCHANGED xvars

\* the aggregators on one table: analyze of program3_analyze_and_plot with
\* its CategorySpec, and StockAnalysisVisualizer.run from line 400 on, the
\* loaded sheet and the arguments being the inputs
InitAggregate ==
    /\ QIdle
    /\ label = <<>> /\ rng = <<0, 0>> /\ category = "" /\ cpc = "idle"
    /\ prog \in {"transform", "visualizer"}
    /\ columns \in ColumnChoices
    /\ df \in Tables
    /\ \/ prog = "transform" /\ spec \in TransformSpecs /\ args = <<>>
          /\ apc = "transform"
       \/ prog = "visualizer" /\ args \in RunArgs /\ apc = "vz_shares"
          /\ spec = [mode |-> "quantity", price |-> 0, custom |-> <<>>]
    /\ categories = <<>>
    /\ grouped = <<>>
    /\ tablesRead = TRUE
    /\ filesOut = {}
    /\ exit = "running"
    /\ XIdle

NextAggregate ==
    \/ Transform
    \/ VZ_Shares
    \/ VZ_Amount
    \/ VZ_Custom

SpecAggregate == InitAggregate /\ [][NextAggregate]_vars

\* ------------------------------------------ program3_analyze_and_plot.main
\* the pattern of line 188, ^(\d+)-(\d+)$, on one part of --custom
is_band(p) ==
    LET e == DigitsEnd(p, 1)
        f == DigitsEnd(p, e + 1)
    IN e > 1 /\ e <= Len(p) /\ p[e] = "-" /\ f > e + 1 /\ f = Len(p) + 1

RECURSIVE bands_of(_)
\* the loop of lines 186-191 over the parts of the argument
bands_of(parts) ==
    IF parts = <<>> THEN <<>>
    ELSE LET p == strip(Head(parts))
             e == DigitsEnd(p, 1)
         IN (IF p # <<>> /\ is_band(p)
             THEN << <<NumValue(p, 1, e), NumValue(p, e + 1, Len(p) + 1)>> >>
             ELSE <<>>)
                \o bands_of(Tail(parts))

\* parse_custom_bands: the well-formed A-B parts of the argument; the empty
\* list stands for None
parse_custom_bands(arg) == IF arg = <<>> THEN <<>> ELSE bands_of(split(arg, ","))

\* main, lines 205-209: the CategorySpec, and the check of amount mode
P3_ParseArgs ==
    /\ prog = "program3" /\ apc = "p3_args"
    /\ spec' = [mode |-> args.mode,
                price |-> IF args.price = <<>> THEN 0 ELSE args.price[1],
                custom |-> parse_custom_bands(args.custom)]
    /\ IF args.mode = "amount" /\ (args.price = <<>> \/ args.price[1] <= 0)
       THEN exit' = "return_1" /\ apc' = "done"
       ELSE exit' = exit /\ apc' = "p3_read"
    /\ UNCHANGED <<prog, args, columns, df, categories, grouped, tablesRead, filesOut,
                   label, rng, category, cpc, qvars, ivars>>
    /\ UNCHANGED xvars

\* main, line 211: read_program2_excel
P3_ReadExcel ==
    /\ prog = "program3" /\ apc = "p3_read"
    /\ tablesRead' = TRUE
    /\ apc' = "p3_analyze"
    /\ UNCHANGED <<prog, args, columns, df, categories, grouped, filesOut, exit,
                   qvars, ivars, cvars>>
    /\ UNCHANGED xvars

\* main, lines 213-216: analyze transforms the tables (at most 15 columns
\* result, which reduce_to_15_lines leaves alone) and writes the three workbooks
P3_Analyze ==
    /\ prog = "program3" /\ apc = "p3_analyze"
    /\ categories' = col_to_cat(columns, spec)
    /\ grouped' = transform(columns, df, spec)
    /\ filesOut' = {"trend_holders", "trend_shares", "trend_ratio"}
    /\ exit' = "ok"
    /\ apc' = "done"
    /\ UNCHANGED <<prog, args, columns, df, tablesRead, qvars, ivars, cvars>>
    /\ UNCHANGED xvars

\* ------------------------------------------------- analyze_and_plot.main
\* float(s) succeeds: digits, spaces around them allowed (the arguments and
\* labels of the model hold no sign, point or exponent)
is_float(s) == is_int(strip(s))
float(s) == NumValue(strip(s), 1, Len(strip(s)) + 1)

\* str.split(sep, 1): the text before the first sep and the text after it
split1(s, sep) ==
    LET i == CHOOSE k \in 1..Len(s) : s[k] = sep /\ \A j \in 1..(k - 1) : s[j] # sep
    IN <<SubSeq(s, 1, i - 1), SubSeq(s, i + 1, Len(s))>>

RECURSIVE ranges_raise(_)
\* parse_custom_ranges raises ValueError: a part without '-' (line 128) or
\* with a side that is not a number (line 129)
ranges_raise(parts) ==
    IF parts = <<>> THEN FALSE
    ELSE LET part == strip(Head(parts))
         IN IF part = <<>> THEN ranges_raise(Tail(parts))
            ELSE IF ~contains_char(part, "-") THEN TRUE
            ELSE IF ~is_float(split1(part, "-")[1]) \/ ~is_float(split1(part, "-")[2]) THEN TRUE
            ELSE ranges_raise(Tail(parts))

RECURSIVE ranges_of(_)
\* the list parse_custom_ranges returns when it does not raise
ranges_of(parts) ==
    IF parts = <<>> THEN <<>>
    ELSE LET part == strip(Head(parts))
         IN (IF part = <<>> THEN <<>>
             ELSE << <<float(split1(part, "-")[1]), float(split1(part, "-")[2])>> >>)
                \o ranges_of(Tail(parts))

parse_custom_ranges(ranges_str) == ranges_of(split(ranges_str, ","))

\* parse_bin_label_to_shares: <<low, high>>, <<low>> for an open-ended label,
\* <<>> for None
parse_bin_label_to_shares(lbl) ==
    LET s == strip(replace_char(lbl, ","))
    IN IF contains_char(s, "+")
       THEN IF is_float(replace_char(s, "+")) THEN <<float(replace_char(s, "+"))>> ELSE <<>>
       ELSE IF contains_char(s, "-")
       THEN IF is_float(split1(s, "-")[1]) /\ is_float(split1(s, "-")[2])
            THEN <<float(split1(s, "-")[1]), float(split1(s, "-")[2])>>
            ELSE <<>>
       ELSE <<>>

RECURSIVE find_custom_bucket(_, _, _)
\* find_custom_bucket: the tag of the first bucket, from the i-th on, that
\* holds value_low
find_custom_bucket(value_low, buckets, i) ==
    IF i > Len(buckets) THEN "B?"
    ELSE IF buckets[i][1] <= value_low /\ value_low <= buckets[i][2]
    THEN "B" \o ToString(i) \o ":" \o ToString(buckets[i][1]) \o "-" \o ToString(buckets[i][2])
    ELSE find_custom_bucket(value_low, buckets, i + 1)

\* the legend label of one column, lines 75-85 and 91-98: the prefix is one
\* string put before the characters of the label (numbers without separators)
category_label(lbl, mode, price, custom_ranges) ==
    LET r == parse_bin_label_to_shares(lbl)
    IN IF r = <<>> THEN lbl
       ELSE IF mode = "amount"
       THEN IF Len(r) = 1
            THEN <<"$>= " \o ToString(r[1] * price) \o " | ">> \o lbl
            ELSE <<"$" \o ToString(r[1] * price) \o "-" \o ToString(r[2] * price) \o " | ">> \o lbl
       ELSE <<find_custom_bucket(r[1], custom_ranges, 1) \o " | ">> \o lbl

\* apply_category_labels raises SystemExit, lines 71-72 and 88-89
apply_category_labels_exits(mode, price, custom_ranges) ==
    \/ mode = "amount" /\ (price = <<>> \/ price[1] = 0)
    \/ mode = "custom" /\ custom_ranges = <<>>

\* apply_category_labels when it returns
apply_category_labels(cols, mode, price, custom_ranges) ==
    IF mode \in {"amount", "custom"}
    THEN [i \in 1..Len(cols) |->
            category_label(cols[i], mode, IF price = <<>> THEN 0 ELSE price[1], custom_ranges)]
    ELSE cols

\* main, lines 211-212: read_summary_excel
AAP_ReadSummary ==
    /\ prog = "analyze_and_plot" /\ apc = "aap_read"
    /\ tablesRead' = TRUE
    /\ apc' = "aap_ranges"
    /\ UNCHANGED <<prog, args, columns, df, categories, grouped, filesOut, exit,
                   qvars, ivars, cvars>>
    /\ UNCHANGED xvars

\* main, line 215: the ranges of --ranges when it is given
AAP_ParseRanges ==
    /\ prog = "analyze_and_plot" /\ apc = "aap_ranges"
    /\ IF args.custom # <<>> /\ ranges_raise(split(args.custom, ","))
       THEN /\ exit' = "value_error" /\ apc' = "done"
            /\ spec' = spec
       ELSE /\ exit' = exit /\ apc' = "aap_labels"
            /\ spec' = [mode |-> args.mode,
                        price |-> IF args.price = <<>> THEN 0 ELSE args.price[1],
                        custom |-> IF args.custom # <<>> THEN parse_custom_ranges(args.custom)
                                   ELSE <<>>]
    /\ UNCHANGED <<prog, args, columns, df, categories, grouped, tablesRead, filesOut,
                   label, rng, category, cpc, qvars, ivars>>
    /\ UNCHANGED xvars

\* main, lines 217-222: the columns of the tables relabelled
AAP_ApplyLabels ==
    /\ prog = "analyze_and_plot" /\ apc = "aap_labels"
    /\ IF apply_category_labels_exits(args.mode, args.price, spec.custom)
       THEN /\ exit' = "system_exit" /\ apc' = "done"
            /\ UNCHANGED grouped
       ELSE /\ grouped' = [cols |-> apply_category_labels(columns, args.mode, args.price,
                                                          spec.custom),
                           rows |-> df]
            /\ exit' = exit /\ apc' = "aap_write"
    /\ UNCHANGED <<prog, args, columns, df, categories, tablesRead, filesOut,
                   qvars, ivars, cvars>>
    /\ UNCHANGED xvars

\* main, lines 224-227: write_outputs
AAP_WriteOutputs ==
    /\ prog = "analyze_and_plot" /\ apc = "aap_write"
    /\ filesOut' = {"people", "shares", "percent"}
    /\ exit' = "ok"
    /\ apc' = "done"
    /\ UNCHANGED <<prog, args, columns, df, categories, grouped, tablesRead,
                   qvars, ivars, cvars>>
    /\ UNCHANGED xvars

\* the two command-line programs: the arguments and the workbook of
\* program 2 (one of its three tables) are the inputs
CommandLines ==
    [mode : {"quantity", "shares", "amount", "custom"},
     price : {<<>>} \cup {<<p>> : p \in (0 - MaxPrice)..MaxPrice},
     custom : CustomArgs]

InitMain ==
    /\ QIdle
    /\ CIdle
    /\ prog \in {"program3", "analyze_and_plot"}
    /\ args \in CommandLines
    /\ args.mode # (IF prog = "program3" THEN "shares" ELSE "quantity")
    /\ columns \in ColumnChoices
    /\ df \in { << << <<1>>, <<0>>, <<1>> >>, << <<1>>, <<>>, <<0>> >> >>,
                << << <<>>, <<>>, <<>> >>, << <<1>>, <<1>>, <<1>> >> >> }
    /\ categories = <<>>
    /\ grouped = <<>>
    /\ tablesRead = FALSE
    /\ filesOut = {}
    /\ exit = "running"
    /\ apc = IF prog = "program3" THEN "p3_args" ELSE "aap_read"
    /\ XIdle

NextMain ==
    \/ P3_ParseArgs
    \/ P3_ReadExcel
    \/ P3_Analyze
    \/ AAP_ReadSummary
    \/ AAP_ParseRanges
    \/ AAP_ApplyLabels
    \/ AAP_WriteOutputs

SpecMain == InitMain /\ [][NextMain]_vars

\* ========================================================================
\* Properties of the boundary resolvers
\* ========================================================================
SetMin(S) == CHOOSE x \in S : \A y \in S : x <= y
SetMax(S) == CHOOSE x \in S : \A y \in S : x >= y
Warned(w) == \E i \in 1..Len(warnings) : warnings[i] = w

\* the resolver of query_and_aggregate.main or of StockDataQuery has been
\* called on a non-empty list of dates
ResolverRan ==
    \/ /\ entry = "qa"
       /\ pc \in {"qa_build", "qa_write", "done"}
       /\ outcome \notin {"no_dir", "no_data"}
    \/ /\ entry = "sdq"
       /\ pc \in {"sdq_load", "sdq_parse", "sdq_write", "done"}
       /\ outcome \notin {"invalid_range", "no_dir", "no_data"}

\* C1: the start boundary is the smallest available date >= the requested
\* start when there is one, with no start warning; otherwise it is the largest
\* available date <= the requested start and the start warning is emitted.
\* With the dates 01, 08, 15 a start of 03 gives 08 unwarned, 20 gives 15 warned.
C1_StartResolution ==
    ResolverRan =>
        LET ge == {d \in archive : d >= reqStart}
            le == {d \in archive : d <= reqStart}
        IN /\ IF ge # {}
              THEN startUse = SetMin(ge) /\ ~Warned("start")
              ELSE startUse = SetMax(le) /\ Warned("start")
           /\ (archive = {1, 8, 15} /\ reqStart = 3 => startUse = 8 /\ ~Warned("start"))
           /\ (archive = {1, 8, 15} /\ reqStart = 20 => startUse = 15 /\ Warned("start"))

C1_Witness ==
    /\ ResolverRan
    /\ archive = {1, 8, 15}
    /\ reqStart = 20
    /\ startUse = 15
    /\ Warned("start")

\* C2: the end boundary is the largest available date <= the requested end
\* when there is one, with no end warning; otherwise it is the smallest
\* available date >= the requested end and the end warning is emitted.
C2_EndResolution ==
    ResolverRan =>
        LET le == {d \in archive : d <= reqEnd}
            ge == {d \in archive : d >= reqEnd}
        IN IF le # {}
           THEN endUse = SetMax(le) /\ ~Warned("end")
           ELSE endUse = SetMin(ge) /\ Warned("end")

C2_Witness ==
    /\ ResolverRan
    /\ archive = {8, 15}
    /\ reqEnd = 3
    /\ endUse = 8
    /\ Warned("end")

\* prog2_query_and_overlay.main has computed the indices of both boundaries
OverlayResolved ==
    /\ entry = "overlay"
    /\ pc \in {"ov_build", "ov_write", "done"}
    /\ outcome # "no_data"

C4_BoundariesFromArchive ==
    (ResolverRan /\ reqStart <= reqEnd) =>
        /\ outcome \notin {"no_boundary", "no_range"}
        /\ startUse \in archive
        /\ endUse \in archive

C4_Witness ==
    /\ ResolverRan
    /\ archive = {8}
    /\ reqStart = 1
    /\ reqEnd = 5
    /\ startUse = 8
    /\ endUse = 8

\* C5: a requested boundary that is itself an available date is returned
\* unchanged and without a warning, whatever other dates are available.
C5_ExactMatch ==
    ResolverRan =>
        /\ (reqStart \in archive => startUse = reqStart /\ ~Warned("start"))
        /\ (reqEnd \in archive => endUse = reqEnd /\ ~Warned("end"))

C5_Witness ==
    /\ ResolverRan
    /\ archive = {1, 8, 15, 22}
    /\ reqStart = 8
    /\ reqEnd = 15
    /\ startUse = 8
    /\ endUse = 15
    /\ warnings = <<>>

\* the end-to-end scenario: snapshots for 01-01 and 01-15 only, request 01-05..01-20
Scenario ==
    /\ entry = "qa"
    /\ archive = {1, 15}
    /\ reqStart = 5
    /\ reqEnd = 20
    /\ pc = "done"

OneRowOfSnapshot15 ==
    /\ outcome = "ok"
    /\ startUse = 15
    /\ endUse = 15
    /\ Len(table) = 1
    /\ table[1].date = 15
    /\ table[1].people = SnapshotOf(15).people
    /\ table[1].shares = SnapshotOf(15).shares
    /\ table[1].percent = SnapshotOf(15).percent

\* C6 as stated: the scenario ends with actualStart = actualEnd = 01-15, one row
\* equal to the 01-15 snapshot, and a start fallback warning.
C6_ScenarioWithWarning ==
    Scenario => OneRowOfSnapshot15 /\ Warned("start")

\* C6 as the code has it: the scenario ends with actualStart = actualEnd =
\* 01-15 and one row equal to the 01-15 snapshot; moving the start forward to
\* 01-15 is the preferred direction and emits no warning.
C6_ScenarioNoWarning ==
    Scenario => OneRowOfSnapshot15 /\ warnings = <<>>

C6_Witness ==
    /\ Scenario
    /\ Len(table) = 1
    /\ startUse = 15

\* C7: with zero archived dates every entry point ends with a no-data outcome
\* before a boundary is resolved, a table is built or a file is written.  A
\* StockDataQuery request that validate_inputs rejects for its date order never
\* reaches find_closest_dates.
C7_NoDataFatal ==
    (archive = {} /\ pc = "done" /\ outcome # "invalid_range") =>
        /\ outcome \in {"no_data", "no_dir"}
        /\ startUse = NoDate
        /\ endUse = NoDate
        /\ selected = <<>>
        /\ table = <<>>
        /\ ~written

\* the request window holds no available date, and dates exist on both sides
WindowBetweenDates ==
    /\ entry = "sdq"
    /\ reqStart < reqEnd
    /\ {d \in archive : reqStart <= d /\ d <= reqEnd} = {}
    /\ {d \in archive : d < reqStart} # {}
    /\ {d \in archive : d > reqEnd} # {}

\* C8 as stated: process_query then resolves without raising and builds an
\* empty or single-row table without an exception.
C8_EmptyWindowCompletes ==
    (WindowBetweenDates /\ pc = "done") =>
        /\ outcome = "ok"
        /\ Len(table) <= 1

\* C8 as the code has it: find_closest_dates returns without raising, with
\* actualStart > actualEnd, both archive dates, and no warning; load_stock_data
\* then raises its no-data-in-range ValueError, so no table is built and no
\* file is written.
C8_EmptyWindowRaisesOnLoad ==
    WindowBetweenDates =>
        /\ outcome \notin {"no_data", "no_range", "no_dir", "invalid_range"}
        /\ (pc \in {"sdq_load", "done"} =>
                /\ startUse \in archive /\ endUse \in archive
                /\ startUse > endUse
                /\ warnings = <<>>)
        /\ pc \notin {"sdq_parse", "sdq_write"}
        /\ (pc = "done" =>
                /\ outcome = "no_data_in_range"
                /\ table = <<>>
                /\ ~written)

C8_Witness ==
    /\ WindowBetweenDates
    /\ archive = {1, 8}
    /\ reqStart = 3
    /\ reqEnd = 5
    /\ pc = "done"
    /\ startUse = 8
    /\ endUse = 1
    /\ outcome = "no_data_in_range"

\* ========================================================================
\* Properties of the bucket classifier
\* ========================================================================
\* C9: in quantity (shares) mode the 15 canonical labels split into retail for
\* the eleven buckets up to 400,000 shares, mid for 400,001-600,000,
\* 600,001-800,000 and 800,001-1,000,000, and whale for the open-ended 1,000,001+.
C9_SharesModeSplit ==
    (cpc = "done" /\ spec.mode = "quantity") =>
        \A i \in 1..Len(DEFAULT_TDCC_BINS) :
            label = DEFAULT_TDCC_BINS[i] =>
                category = (IF i <= 11 THEN "retail"
                            ELSE IF i <= 14 THEN "mid"
                            ELSE "whale")

\* the open-ended range (1000001, infinity) classified in amount mode at a positive price
OpenEndedAmount ==
    /\ cpc = "done"
    /\ spec.mode = "amount"
    /\ spec.price > 0
    /\ rng = <<1000001, Inf>>

\* C10 as stated: the open-ended bucket has an infinite upper amount, so at no
\* positive price is (1000001, infinity) classified retail or small_mid.
C10_OpenEndedNeverRetail ==
    OpenEndedAmount => category \notin {"retail", "small_mid"}

\* C10 as the code has it: the upper amount of the open-ended bucket is
\* low * price, so (1000001, infinity) is retail below 5,000,000, small_mid
\* from 5,000,000 to 10,000,000, mid up to 30,000,000 and whale above; it is
\* neither retail nor small_mid exactly when 1000001 * price > 10,000,000.
C10_OpenEndedByLowAmount ==
    OpenEndedAmount =>
        LET amt == 1000001 * spec.price
        IN /\ category = (IF amt < 5000000 THEN "retail"
                          ELSE IF amt <= 10000000 THEN "small_mid"
                          ELSE IF amt <= 30000000 THEN "mid"
                          ELSE "whale")
           /\ (category \notin {"retail", "small_mid"} <=> amt > 10000000)

C10_Witness ==
    /\ OpenEndedAmount
    /\ spec.price = 4
    /\ category = "retail"

\* ========================================================================
\* Properties of the classifier and of the aggregators
\* ========================================================================
\* the bands of the CategorySpec that hold the parsed range
HoldingBands == {i \in 1..Len(spec.custom) : spec.custom[i][1] <= rng[1] /\ rng[2] <= spec.custom[i][2]}

\* classify_bucket has returned in custom mode with a non-empty list of ranges
CustomClassified == cpc = "done" /\ spec.mode = "custom" /\ spec.custom # <<>>

\* C11: in custom mode with a non-empty ordered list of ranges, the range
\* (low, high) gets 'band_i' for the smallest 1-based i with c_low <= low and
\* high <= c_high, also when later ranges hold it too, and 'band_other' when
\* no range holds it.
C11_CustomFirstMatch ==
    CustomClassified =>
        category = (IF HoldingBands = {} THEN "band_other"
                    ELSE "band_" \o ToString(SetMin(HoldingBands)))

\* a range held by two bands gets the first one
C11_Witness ==
    /\ CustomClassified
    /\ Cardinality(HoldingBands) >= 2
    /\ category = "band_1"

\* the numeric bounds written in the 15 canonical labels
CanonicalBounds ==
    << <<1, 999>>, <<1000, 5000>>, <<5001, 10000>>, <<10001, 15000>>,
       <<15001, 20000>>, <<20001, 30000>>, <<30001, 40000>>, <<40001, 50000>>,
       <<50001, 100000>>, <<100001, 200000>>, <<200001, 400000>>,
       <<400001, 600000>>, <<600001, 800000>>, <<800001, 1000000>>,
       <<1000001, Inf>> >>

\* C14: the range infer_bucket_range parses from each of the 15 canonical
\* labels has low <= high and equals the bounds written in the label, and
\* exactly one of the 15 ranges, that of the open-ended label, has an
\* infinite high.
C14_BucketRangeInvariant ==
    cpc \in {"classify", "done"} =>
        \A i \in 1..Len(DEFAULT_TDCC_BINS) :
            label = DEFAULT_TDCC_BINS[i] =>
                /\ rng[1] <= rng[2]
                /\ rng = CanonicalBounds[i]
                /\ Cardinality({j \in 1..Len(DEFAULT_TDCC_BINS) :
                                  infer_bucket_range(DEFAULT_TDCC_BINS[j])[2] = Inf}) = 1

\* a canonical label classified under a CategorySpec the entry points accept
CanonicalClassified ==
    /\ cpc = "done"
    /\ \E i \in 1..Len(DEFAULT_TDCC_BINS) : label = DEFAULT_TDCC_BINS[i]
    /\ \/ spec.mode = "quantity"
       \/ spec.mode = "amount" /\ spec.price > 0
       \/ spec.mode = "custom" /\ spec.custom # <<>>

\* C15: for each canonical label and each of the three modes (quantity,
\* amount with a positive price, custom with a non-empty list of ranges)
\* infer_bucket_range followed by classify_bucket returns a category name.
C15_ClassifierTotal ==
    CanonicalClassified =>
        category \in {"retail", "small_mid", "mid", "whale", "band_other"}
                        \cup {"band_" \o ToString(i) : i \in 1..Len(spec.custom)}

\* a canonical label that no custom band holds
C15_Witness ==
    /\ CanonicalClassified
    /\ spec.mode = "custom"
    /\ rng = <<5001, 10000>>
    /\ HoldingBands = {}
    /\ category = "band_other"

\* the visualizer has built the custom categories of its levels
CustomCategorized ==
    prog = "visualizer" /\ apc = "done" /\ args.custom_ranges # <<>>

\* the categories (by position in the dict) whose list holds the level
ListedIn(level) ==
    {k \in 1..Len(categories) :
        \E j \in 1..Len(categories[k].levels) : categories[k].levels[j] = level}

\* the custom ranges whose bounds contain the [min, max] of the level
ContainedIn(level) ==
    {k \in 1..Len(args.custom_ranges) :
        /\ args.custom_ranges[k][1] <= parse_level_range(level)[1]
        /\ parse_level_range(level)[2] <= args.custom_ranges[k][2]}

\* C12: categorize_custom puts each level in the list of at most one custom
\* category, that of the first range in caller order whose bounds contain
\* the level's [min, max]; no level is in the lists of two categories.
C12_CustomAtMostOneCategory ==
    CustomCategorized =>
        \A i \in 1..Len(columns) :
            /\ Cardinality(ListedIn(columns[i])) <= 1
            /\ ListedIn(columns[i]) =
                   (IF ContainedIn(columns[i]) = {} THEN {}
                    ELSE {SetMin(ContainedIn(columns[i]))})

\* analyze.transform has returned
Transformed == prog = "transform" /\ apc = "done"

\* the label falls through to the fallback of infer_bucket_range (no label of
\* the model is written "0" or "0-0")
Unparseable(lbl) == infer_bucket_range(lbl) = <<0, 0>>

\* C13: in analyze.transform, whatever the mode, a column whose label the
\* parser cannot parse goes to the category 'unknown', so its values are
\* never added into 'retail', 'small_mid', 'mid', 'whale' or a 'band_i'.
C13_UnparseableToUnknown ==
    Transformed =>
        \A i \in 1..Len(columns) :
            Unparseable(columns[i]) =>
                /\ categories[i] = "unknown"
                /\ categories[i] \notin {"retail", "small_mid", "mid", "whale",
                                          "band_1", "band_2", "band_3"}

\* an aggregator has produced a reduced table
Aggregated ==
    \/ Transformed
    \/ prog = "visualizer" /\ apc \in {"vz_amount", "vz_custom", "done"}

\* the cells of row r that feed the k-th column of the reduced table
Contributions(r, k) ==
    IF prog = "transform" THEN feeding(df[r], categories, grouped.cols[k])
    ELSE LET c == CHOOSE c \in 1..Len(categories) : categories[c].name = grouped.cols[k]
             idx == matching_cols(columns, categories[c].levels, 1)
         IN [m \in 1..Len(idx) |-> df[r][idx[m]]]

\* each column of the table is in exactly one category
Partition ==
    \/ prog = "transform"
    \/ \A i \in 1..Len(columns) : Cardinality(ListedIn(columns[i])) = 1

NoMissing == \A r \in 1..Len(df) : \A i \in 1..Len(columns) : df[r][i] # <<>>

\* C18: for a table without missing values and a classification that puts
\* each column in exactly one category, the category sums of every date add
\* up to the sum of all raw columns of that date (analyze.transform and
\* aggregate_by_category).
C18_Conservation ==
    (Aggregated /\ NoMissing /\ Partition) =>
        \A r \in 1..Len(df) : nansum(grouped.rows[r]) = nansum(df[r])

\* a partition by custom ranges that merges two columns with values
C18_Witness ==
    /\ CustomCategorized /\ NoMissing /\ Partition
    /\ Len(grouped.cols) = 2
    /\ nansum(df[1]) = 3

\* C19: when on a date every raw column feeding a category is without a
\* value, the reduced cell of that category and date is without a value, not
\* zero (analyze.transform and aggregate_by_category).
C19_AllMissingStaysMissing ==
    Aggregated =>
        \A r \in 1..Len(df) : \A k \in 1..Len(grouped.cols) :
            (\A m \in 1..Len(Contributions(r, k)) : Contributions(r, k)[m] = <<>>)
                => grouped.rows[r][k] = <<>>

\* the lower bound of the range of the first column that feeds a category
FirstLowerBound(cat) ==
    infer_bucket_range(columns[SetMin({i \in 1..Len(columns) : categories[i] = cat})])[1]

\* C20 as stated: the columns of the reduced table of analyze.transform are
\* in ascending order of the lower bound of their first contributing bucket
\* (retail, small_mid, mid, whale), 'unknown' and 'band_other' last.
C20_ColumnsByLowerBound ==
    Transformed =>
        \A j \in 1..Len(grouped.cols) : \A k \in (j + 1)..Len(grouped.cols) :
            /\ grouped.cols[j] \in {"unknown", "band_other"}
                   => grouped.cols[k] \in {"unknown", "band_other"}
            /\ (grouped.cols[j] \notin {"unknown", "band_other"}
                   /\ grouped.cols[k] \notin {"unknown", "band_other"})
                   => FirstLowerBound(grouped.cols[j]) <= FirstLowerBound(grouped.cols[k])

\* C20 as the code has it: the columns of the reduced table are the
\* categories that have a column, in ascending order of the category name
\* as Python compares strings (mid, retail, small_mid, whale; band_1, band_2,
\* ..., band_other).
C20_ColumnsByName ==
    Transformed =>
        /\ {grouped.cols[k] : k \in 1..Len(grouped.cols)}
              = {categories[i] : i \in 1..Len(columns)}
        /\ \A j \in 1..Len(grouped.cols) : \A k \in (j + 1)..Len(grouped.cols) :
              str_lt(grouped.cols[j], grouped.cols[k])

\* 'mid' comes before 'retail'
C20_Witness ==
    /\ Transformed
    /\ spec.mode = "quantity"
    /\ grouped.cols = <<"mid", "retail">>

\* ========================================================================
\* Properties of the command lines of the analysis programs
\* ========================================================================
\* no table has been read, classified or relabelled, and nothing is written
NoTableWork ==
    /\ ~tablesRead
    /\ categories = <<>>
    /\ grouped = <<>>
    /\ filesOut = {}

\* the run has ended with an error
EndedWithError == apc = "done" /\ exit \notin {"running", "ok"}

\* amount mode without a positive price: missing, zero or negative
AmountWithoutPrice ==
    /\ prog \in {"program3", "analyze_and_plot"}
    /\ args.mode = "amount"
    /\ (args.price = <<>> \/ args.price[1] <= 0)

\* C16: in program3_analyze_and_plot.main and in analyze_and_plot.main,
\* amount mode with a missing, zero or negative price ends the run with an
\* error before the input tables are read or any column is classified or
\* relabelled.
C16_AmountNeedsPositivePrice ==
    AmountWithoutPrice =>
        /\ NoTableWork
        /\ apc = "done" => EndedWithError

\* custom mode of program3_analyze_and_plot with no valid range in --custom
CustomWithoutBands ==
    /\ prog = "program3"
    /\ args.mode = "custom"
    /\ parse_custom_bands(args.custom) = <<>>

\* C17: in program3_analyze_and_plot.main, custom mode whose --custom is
\* absent or holds no well-formed A-B part ends the run with an error, and
\* no table is read, aggregated or written.
C17_EmptyCustomFatal ==
    CustomWithoutBands =>
        /\ NoTableWork
        /\ apc = "done" => EndedWithError

\* ========================================================================
\* Further properties of the aggregators and of the date selection
\* ========================================================================
\* the identity classifier of the visualizer: every column a category of its own
IdentityCategories(cols) == [k \in 1..Len(cols) |-> [name |-> cols[k], levels |-> <<cols[k]>>]]

\* C21: aggregating an already reduced table again, each category column
\* mapped to itself, returns the same table, also when the raw table has
\* missing values (group-sum of analyze.transform and aggregate_by_category).
C21_Idempotence ==
    Aggregated =>
        IF prog = "transform"
        THEN group_sum(grouped.rows, grouped.cols) = grouped
        ELSE aggregate_by_category(grouped.cols, grouped.rows,
                                   IdentityCategories(grouped.cols)) = grouped

\* a reduced table that merged columns of a table with missing values
C21_Witness ==
    /\ Transformed
    /\ Len(grouped.cols) = 2
    /\ df[1] = << <<1>>, <<>>, <<1>> >>
    /\ df[2] = << <<>>, <<>>, <<>> >>

\* query_and_aggregate.main has resolved a request start <= end that has an
\* available date inside
QaWindowHit ==
    /\ entry = "qa"
    /\ pc \in {"qa_build", "qa_write", "done"}
    /\ outcome \notin {"no_dir", "no_data"}
    /\ reqStart <= reqEnd
    /\ \E d \in archive : reqStart <= d /\ d <= reqEnd

\* C28: in query_and_aggregate.main, for a non-empty archive and start <= end
\* with an available date in [start, end], no boundary warning is emitted
\* and the dates given to build_pivots are exactly the available dates of
\* [start, end], ascending.
C28_WindowDatesExact ==
    QaWindowHit =>
        /\ warnings = <<>>
        /\ selected = sorted({d \in archive : reqStart <= d /\ d <= reqEnd})

\* two of three available dates lie in the window, neither on a boundary
C28_Witness ==
    /\ QaWindowHit
    /\ archive = {1, 8, 15}
    /\ reqStart = 5
    /\ reqEnd = 20
    /\ selected = <<8, 15>>

\* prog2_query_and_overlay.main has resolved a request start <= end on a
\* non-empty record list
OverlayOrdered == OverlayResolved /\ reqStart <= reqEnd

\* C29: in prog2_query_and_overlay.main, for a non-empty sorted record list
\* and start <= end, both indices lie within the list and start_idx <=
\* end_idx, so the slice is never empty and build_tables never raises 'No
\* records to build tables'.
C29_SliceNeverEmpty ==
    OverlayOrdered =>
        /\ 0 <= start_idx /\ start_idx <= end_idx /\ end_idx < Len(dates)
        /\ outcome # "no_records"
        /\ pc \in {"ov_write", "done"} => selected # <<>>

\* a request beyond the last record: both indices are the last one
C29_Witness ==
    /\ OverlayOrdered
    /\ pc = "done"
    /\ archive = {1, 8, 15}
    /\ reqStart = 10
    /\ reqEnd = 20
    /\ selected = <<15>>

\* program2_query_and_organize.main has selected its dates
OrganizeSelected ==
    /\ entry = "organize"
    /\ pc \in {"org_read", "org_write", "done"}
    /\ outcome # "no_data"

\* C24: in select_dates_between, when no available date lies in [start, end]
\* and some available date is >= start, the returned dates are non-empty and
\* begin with the smallest available date >= start, with
\* forward_fallback_used set; the backward fallback, with
\* backward_fallback_used set, happens only when no later date exists.
C24_ForwardPreference ==
    OrganizeSelected =>
        LET inside == {d \in archive : reqStart <= d /\ d <= reqEnd}
            later == {d \in archive : d >= reqStart}
        IN /\ (inside = {} /\ later # {}) =>
                  /\ selected # <<>>
                  /\ selected[1] = SetMin(later)
                  /\ Warned("forward")
           /\ Warned("backward") => later = {}

\* build_pivots has been called on a range that holds a malformed snapshot
MalformedInRange ==
    /\ entry = "qa"
    /\ pc \in {"qa_write", "done"}
    /\ \E i \in 1..Len(selected) : selected[i] \in malformed

\* C22: in build_pivots, a date of the resolved range whose snapshot file is
\* malformed (load_tdcc_csv finds a required column missing) is skipped and
\* does not abort the batch: the run goes on and the remaining dates of the
\* range are the rows of the returned tables.
C22_MalformedSkipped ==
    MalformedInRange =>
        /\ outcome # "value_error"
        /\ [i \in 1..Len(table) |-> table[i].date]
               = SelectSeq(selected, LAMBDA d : d \notin malformed)

\* ========================================================================
\* StockDataQuery.parse_tdcc_data on the rows of the loaded entries
\* ========================================================================
\* An entry is a date and its raw rows; a row is a list of texts: the level,
\* the people count, the share count and the percentage.
\* the two levels of the model, in the order of Python's string comparison
\* ("," sorts before "-")
SortedLevels == <<DEFAULT_TDCC_BINS[2], DEFAULT_TDCC_BINS[1]>>

\* the texts a count cell of the model holds: "7", "1,200", "" and "-"
CountTexts == { <<"7">>, <<"1", ",", "2", "0", "0">>, <<>>, <<"-">> }

\* lines 174-175: int(text.replace(',', '')) if that is all digits, else 0
count_value(text) ==
    LET t == replace_comma(text)
    IN IF is_int(t) THEN NumValue(t, 1, Len(t) + 1) ELSE 0

RECURSIVE row_records(_, _)
\* lines 171-183: one record per row of at least four cells
row_records(date, data) ==
    IF data = <<>> THEN <<>>
    ELSE LET row == Head(data)
         IN (IF Len(row) >= 4
             THEN << [date |-> date, level |-> strip(row[1]),
                      people |-> count_value(row[2]),
                      shares |-> count_value(row[3])] >>
             ELSE <<>>)
            \o row_records(date, Tail(data))

RECURSIVE tdcc_records(_)
\* lines 165-196: the records of every entry, in order
tdcc_records(stock_data) ==
    IF stock_data = <<>> THEN <<>>
    ELSE row_records(Head(stock_data).parsed_date, Head(stock_data).data)
         \o tdcc_records(Tail(stock_data))

\* df.pivot(index='date', columns='level', values='value'): a row per date
\* and a column per level that has a record, NaN where the pair has none
pivot(recs, metric) ==
    LET index == sorted({recs[i].date : i \in 1..Len(recs)})
        levels == {recs[i].level : i \in 1..Len(recs)}
        cols == SelectSeq(SortedLevels, LAMBDA l : l \in levels)
    IN [index |-> index,
        columns |-> cols,
        cells |-> [r \in 1..Len(index) |-> [c \in 1..Len(cols) |->
            LET hit == {i \in 1..Len(recs) :
                            recs[i].date = index[r] /\ recs[i].level = cols[c]}
            IN IF hit = {} THEN <<>>
               ELSE IF metric = "people" THEN <<recs[CHOOSE i \in hit : TRUE].people>>
               ELSE <<recs[CHOOSE i \in hit : TRUE].shares>>]]]

\* DataFrame.fillna(0)
fillna(t) ==
    [t EXCEPT !.cells = [r \in 1..Len(t.index) |-> [c \in 1..Len(t.columns) |->
                            IF t.cells[r][c] = <<>> THEN <<0>> ELSE t.cells[r][c]]]]

\* lines 198-207: the pivot of every metric that has records, an empty frame
\* otherwise
parse_tdcc_tables(stock_data) ==
    LET recs == tdcc_records(stock_data)
        empty == [index |-> <<>>, columns |-> <<>>, cells |-> <<>>]
    IN [people_count |-> IF recs = <<>> THEN empty ELSE fillna(pivot(recs, "people")),
        share_count |-> IF recs = <<>> THEN empty ELSE fillna(pivot(recs, "shares"))]

\* the rows an entry holds for one level: none, a short row, or a full row
RowChoices(level) ==
    { <<>>, << <<level, <<"7">> >> >> }
    \cup { << <<level, p, s, <<"1">> >> >> : p \in CountTexts, s \in { <<"5">>, <<>> } }

DataChoices ==
    { a \o b : a \in RowChoices(DEFAULT_TDCC_BINS[1]), b \in RowChoices(DEFAULT_TDCC_BINS[2]) }

\* parse_tdcc_data, lines 156-209
PTD_Parse ==
    /\ ppc = "parse"
    /\ df_tables' = parse_tdcc_tables(raw_entries)
    /\ ppc' = "done"
    /\ UNCHANGED <<raw_entries, malformed, bvars, rvars, kvars, fvars>>
    /\ UNCHANGED <<qvars, ivars, cvars, avars>>

InitParse ==
    /\ QIdle /\ CIdle /\ AIdle
    /\ WellFormed /\ BIdle /\ RIdle /\ KIdle /\ FIdle
    /\ raw_entries \in { << [parsed_date |-> 1, data |-> a], [parsed_date |-> 8, data |-> b] >> :
                            a \in DataChoices, b \in DataChoices }
    /\ df_tables = <<>>
    /\ ppc = "parse"

NextParse == PTD_Parse

SpecParse == InitParse /\ [][NextParse]_vars

\* the full row of an entry for a level, <<>> when the entry has none
FullRow(e, level) ==
    SelectSeq(e.data, LAMBDA row : Len(row) >= 4 /\ strip(row[1]) = level)

\* the cell of the people table for the date of entry e and a level
PeopleCell(e, level) ==
    LET t == df_tables.people_count
        r == CHOOSE i \in 1..Len(t.index) : t.index[i] = e.parsed_date
        c == CHOOSE j \in 1..Len(t.columns) : t.columns[j] = level
    IN t.cells[r][c]

\* the people table has a cell for the date of entry e and the level
HasCell(e, level) ==
    /\ ppc = "done"
    /\ \E i \in 1..Len(df_tables.people_count.index) :
            df_tables.people_count.index[i] = e.parsed_date
    /\ \E j \in 1..Len(df_tables.people_count.columns) :
            df_tables.people_count.columns[j] = level

\* C23: in StockDataQuery.parse_tdcc_data a bucket value that is missing or
\* not numeric within an otherwise valid snapshot, and a bucket absent on one
\* date but present on another, is recorded in the table as 'no value' and
\* never as the number zero.
C23_MissingIsNoValue ==
    \A k \in 1..Len(raw_entries) : \A l \in 1..Len(SortedLevels) :
        LET e == raw_entries[k]
            level == SortedLevels[l]
            row == FullRow(e, level)
        IN (HasCell(e, level) /\ (row = <<>> \/ ~is_int(replace_comma(row[1][2]))))
               => PeopleCell(e, level) = <<>>

\* ========================================================================
\* analyze_and_plot.read_summary_excel: the blocks of the Summary sheet
\* ========================================================================
MaxRows == 6

RECURSIVE block_loop(_, _, _, _)
\* the loop of lines 39-47 from index i on (i counts from 0 as in the code,
\* e[i + 1] is is_empty[i]); starts[-1] raises IndexError on an empty list
block_loop(e, i, starts_in, blocks_in) ==
    IF i > Len(e) THEN [raised |-> FALSE, blocks |-> blocks_in]
    ELSE LET empty == IF i < Len(e) THEN e[i + 1] ELSE TRUE
             prev_empty == IF i = 0 THEN TRUE
                           ELSE IF i < Len(e) THEN e[i] ELSE FALSE
             starts_out == IF prev_empty /\ ~empty THEN Append(starts_in, i) ELSE starts_in
         IN IF ~prev_empty /\ empty
            THEN IF starts_out = <<>>
                 THEN [raised |-> TRUE, blocks |-> blocks_in]
                 ELSE block_loop(e, i + 1, starts_out,
                                 Append(blocks_in, <<starts_out[Len(starts_out)], i>>))
            ELSE block_loop(e, i + 1, starts_out, blocks_in)

\* read_summary_excel, lines 36-47
RSE_Blocks ==
    /\ bpc = "read"
    /\ LET r == block_loop(is_empty, 0, <<>>, <<>>)
       IN /\ blocks' = r.blocks
          /\ bpc' = IF r.raised THEN "index_error" ELSE "done"
    /\ UNCHANGED <<is_empty, malformed, pvars, rvars, kvars, fvars>>
    /\ UNCHANGED <<qvars, ivars, cvars, avars>>

InitBlocks ==
    /\ QIdle /\ CIdle /\ AIdle
    /\ WellFormed /\ PIdle /\ RIdle /\ KIdle /\ FIdle
    /\ \E n \in 0..MaxRows : is_empty \in [1..n -> BOOLEAN]
    /\ blocks = <<>>
    /\ bpc = "read"

NextBlocks == RSE_Blocks

SpecBlocks == InitBlocks /\ [][NextBlocks]_vars

\* the maximal runs of consecutive non-empty rows as half-open intervals
\* (start, end), rows counted from 0
MaximalRuns ==
    { <<a, b>> \in (0..Len(is_empty)) \X (0..Len(is_empty)) :
        /\ a < b
        /\ \A i \in (a + 1)..b : ~is_empty[i]
        /\ (a = 0 \/ is_empty[a])
        /\ (b = Len(is_empty) \/ is_empty[b + 1]) }

\* C27: for every sequence of empty / non-empty rows the blocks computed by
\* read_summary_excel are exactly the maximal runs of consecutive non-empty
\* rows, in order, pairwise disjoint, each a half-open interval (start, end),
\* also when the sheet ends with empty rows or has no non-empty row.
C27_BlocksAreMaximalRuns ==
    bpc # "read" =>
        /\ bpc = "done"
        /\ {blocks[i] : i \in 1..Len(blocks)} = MaximalRuns
        /\ \A i \in 1..(Len(blocks) - 1) : blocks[i][2] <= blocks[i + 1][1]

\* ========================================================================
\* program1_crawler.utils.request_with_retry
\* ========================================================================
MaxRetries == 5

\* what one requests.request + raise_for_status can end with: a response, a
\* requests.RequestException (a connection error, or the HTTPError of
\* raise_for_status), or an exception of another class
RequestExceptions == {"connection_error", "http_error"}
Outcomes == {"ok", "other_error"} \cup RequestExceptions

\* the handler never re-raising: it sleeps after every failure
last_attempt_Never(n, limit) == FALSE

\* line 38: attempt == max_retries
last_attempt(n, limit) == n = limit

\* one iteration of the loop of lines 31-40: the request, and on a
\* RequestException the re-raise or the sleep
RWR_Attempt ==
    /\ rpc = "loop"
    /\ attempt < max_retries
    /\ attempt' = attempt + 1
    /\ \E o \in Outcomes :
        /\ history' = Append(history, o)
        /\ IF o = "ok"
           THEN response' = "response" /\ rpc' = "returned" /\ sleeps' = sleeps
           ELSE IF o \notin RequestExceptions \/ last_attempt(attempt', max_retries)
           THEN response' = o /\ rpc' = "raised" /\ sleeps' = sleeps
           ELSE response' = response /\ rpc' = "loop" /\ sleeps' = Append(sleeps, attempt')
    /\ UNCHANGED <<max_retries, malformed, pvars, bvars, kvars, fvars>>
    /\ UNCHANGED <<qvars, ivars, cvars, avars>>

\* the range of line 31 is exhausted: the function ends without a return
\* statement and the caller gets None
RWR_FallThrough ==
    /\ rpc = "loop"
    /\ attempt >= max_retries
    /\ response' = "none"
    /\ rpc' = "returned"
    /\ UNCHANGED <<max_retries, attempt, history, sleeps, malformed, pvars, bvars,
                   kvars, fvars>>
    /\ UNCHANGED <<qvars, ivars, cvars, avars>>

InitRetry ==
    /\ QIdle /\ CIdle /\ AIdle
    /\ WellFormed /\ PIdle /\ BIdle /\ KIdle /\ FIdle
    /\ max_retries \in 0..MaxRetries
    /\ attempt = 0
    /\ history = <<>>
    /\ sleeps = <<>>
    /\ response = ""
    /\ rpc = "loop"

NextRetry ==
    \/ RWR_Attempt
    \/ RWR_FallThrough

SpecRetry == InitRetry /\ [][NextRetry]_vars

\* C26: request_with_retry with max_retries >= 1 makes at most max_retries
\* requests, returns the response of the first successful attempt without
\* issuing further requests, re-raises the last exception when all
\* max_retries attempts fail with a RequestException, sleeps only between
\* attempts (attempt i is followed by a sleep of backoff * i, the final
\* failure by none), and always ends with a response or an exception.
C26_RetryContract ==
    max_retries >= 1 =>
        /\ Len(history) <= max_retries
        /\ \A i \in 1..Len(history) :
              history[i] = "ok" => (i = Len(history) /\ rpc = "returned")
        /\ rpc = "returned" =>
              response = "response" /\ history # <<>> /\ history[Len(history)] = "ok"
        /\ (Len(history) = max_retries
               /\ \A i \in 1..Len(history) : history[i] \in RequestExceptions)
              => (rpc = "raised" /\ response = history[max_retries])
        /\ rpc = "raised" => response = history[Len(history)] /\ response # "ok"
        /\ Len(sleeps) = (IF rpc = "loop" THEN Len(history) ELSE Len(history) - 1)
        /\ \A i \in 1..Len(sleeps) : sleeps[i] = i
        /\ rpc = "loop" => attempt < max_retries

\* three failures of three: the last exception is raised after two sleeps
C26_Witness ==
    /\ max_retries = 3
    /\ rpc = "raised"
    /\ history = <<"connection_error", "connection_error", "http_error">>
    /\ response = "http_error"
    /\ sleeps = <<1, 2>>

\* ========================================================================
\* The incremental crawlers: tdcc_crawler.crawl_code,
\* program1_crawler.tdcc_crawler.update_stock, prog1_crawl_tdcc.crawl_for_code
\* ========================================================================
Crawlers == {"crawl_code", "update_stock", "crawl_for_code"}

\* compute_target_dates / generate_past_year_dates / daterange_weekly: the
\* weekly dates of the period, ascending, each once
target_dates == sorted(WeeklyDays)

\* the test treating every date as new
is_new_Always(d, seen) == TRUE

\* "date_str in existing_dates" / "d not in existing" / "d in existing"
is_new(d, seen) == d \notin seen

\* the listing of the stock directory and the list of dates to visit:
\* update_stock filters the targets first (line 54), the others in the loop
CR_Start ==
    /\ kpc = "start"
    /\ existing' = on_disk
    /\ todo' = IF crawler = "update_stock"
               THEN SelectSeq(target_dates, LAMBDA d : is_new(d, on_disk))
               ELSE target_dates
    /\ kpc' = "loop"
    /\ UNCHANGED <<crawler, simulate, initial, on_disk, fetched, saved>>
    /\ UNCHANGED <<malformed, pvars, bvars, rvars, fvars>>
    /\ UNCHANGED <<qvars, ivars, cvars, avars>>

\* crawl_code lines 287-288, crawl_for_code lines 152-153: continue
CR_Skip ==
    /\ kpc = "loop" /\ todo # <<>>
    /\ crawler # "update_stock"
    /\ ~is_new(Head(todo), existing)
    /\ todo' = Tail(todo)
    /\ UNCHANGED <<crawler, simulate, initial, on_disk, existing, fetched, saved, kpc>>
    /\ UNCHANGED <<malformed, pvars, bvars, rvars, fvars>>
    /\ UNCHANGED <<qvars, ivars, cvars, avars>>

\* crawl_for_code lines 154-163: the synthetic record, saved without a fetch
CR_Simulate ==
    /\ kpc = "loop" /\ todo # <<>>
    /\ crawler = "crawl_for_code" /\ simulate
    /\ is_new(Head(todo), existing)
    /\ on_disk' = on_disk \cup {Head(todo)}
    /\ saved' = [saved EXCEPT ![Head(todo)] = @ + 1]
    /\ todo' = Tail(todo)
    /\ UNCHANGED <<crawler, simulate, initial, existing, fetched, kpc>>
    /\ UNCHANGED <<malformed, pvars, bvars, rvars, fvars>>
    /\ UNCHANGED <<qvars, ivars, cvars, avars>>

\* the fetch of the date gives data and the snapshot is saved: crawl_code
\* lines 289-296, update_stock lines 57-63, crawl_for_code lines 164-168
CR_FetchSaved ==
    /\ kpc = "loop" /\ todo # <<>>
    /\ ~(crawler = "crawl_for_code" /\ simulate)
    /\ crawler = "update_stock" \/ is_new(Head(todo), existing)
    /\ fetched' = [fetched EXCEPT ![Head(todo)] = Append(@, "ok")]
    /\ on_disk' = on_disk \cup {Head(todo)}
    /\ saved' = [saved EXCEPT ![Head(todo)] = @ + 1]
    /\ todo' = Tail(todo)
    /\ UNCHANGED <<crawler, simulate, initial, existing, kpc>>
    /\ UNCHANGED <<malformed, pvars, bvars, rvars, fvars>>
    /\ UNCHANGED <<qvars, ivars, cvars, avars>>

\* the fetch gives nothing (None, or an exception caught in update_stock):
\* the date is skipped with a message and nothing is written
CR_FetchFailed ==
    /\ kpc = "loop" /\ todo # <<>>
    /\ ~(crawler = "crawl_for_code" /\ simulate)
    /\ crawler = "update_stock" \/ is_new(Head(todo), existing)
    /\ fetched' = [fetched EXCEPT ![Head(todo)] = Append(@, "failed")]
    /\ todo' = Tail(todo)
    /\ UNCHANGED <<crawler, simulate, initial, on_disk, existing, saved, kpc>>
    /\ UNCHANGED <<malformed, pvars, bvars, rvars, fvars>>
    /\ UNCHANGED <<qvars, ivars, cvars, avars>>

\* crawl_code line 291: the selenium fetch raises (webdriver start, the wait
\* of line 266); crawl_code has no handler, main (lines 326-328) goes on
\* with the next stock
CR_FetchRaised ==
    /\ kpc = "loop" /\ todo # <<>>
    /\ crawler = "crawl_code"
    /\ is_new(Head(todo), existing)
    /\ fetched' = [fetched EXCEPT ![Head(todo)] = Append(@, "raised")]
    /\ kpc' = "aborted"
    /\ UNCHANGED <<crawler, simulate, initial, on_disk, existing, todo, saved>>
    /\ UNCHANGED <<malformed, pvars, bvars, rvars, fvars>>
    /\ UNCHANGED <<qvars, ivars, cvars, avars>>

\* the loop over the dates is over
CR_Return ==
    /\ kpc = "loop" /\ todo = <<>>
    /\ kpc' = "done"
    /\ UNCHANGED <<crawler, simulate, initial, on_disk, existing, todo, fetched, saved>>
    /\ UNCHANGED <<malformed, pvars, bvars, rvars, fvars>>
    /\ UNCHANGED <<qvars, ivars, cvars, avars>>

InitCrawl ==
    /\ QIdle /\ CIdle /\ AIdle
    /\ WellFormed /\ PIdle /\ BIdle /\ RIdle /\ FIdle
    /\ crawler \in Crawlers
    /\ simulate \in BOOLEAN
    /\ (simulate => crawler = "crawl_for_code")
    /\ initial \in SUBSET WeeklyDays
    /\ on_disk = initial
    /\ existing = {}
    /\ todo = <<>>
    /\ fetched = [d \in WeeklyDays |-> <<>>]
    /\ saved = [d \in WeeklyDays |-> 0]
    /\ kpc = "start"

NextCrawl ==
    \/ CR_Start
    \/ CR_Skip
    \/ CR_Simulate
    \/ CR_FetchSaved
    \/ CR_FetchFailed
    \/ CR_FetchRaised
    \/ CR_Return

SpecCrawl == InitCrawl /\ [][NextCrawl]_vars

\* the fetch of date d has given data
FetchedOk(d) == \E i \in 1..Len(fetched[d]) : fetched[d][i] = "ok"

\* the archived snapshots are neither fetched nor rewritten, and a file is
\* written at most once
ArchiveUntouched ==
    \A d \in WeeklyDays :
        /\ d \in initial => (fetched[d] = <<>> /\ saved[d] = 0 /\ d \in on_disk)
        /\ saved[d] <= 1

\* C25 as stated: in crawl_code, update_stock and crawl_for_code a date whose
\* snapshot file exists at the start of the run is neither fetched nor
\* rewritten, and each missing target date has its file written at most once
\* and only after a successful fetch.
C25_WrittenOnlyAfterFetch ==
    /\ ArchiveUntouched
    /\ \A d \in WeeklyDays : saved[d] >= 1 => FetchedOk(d)

\* C25, amended: the same, except that crawl_for_code with simulate set
\* writes every missing target date once from synthesized levels, with no
\* fetch at all.
C25_IncrementalCrawl ==
    /\ ArchiveUntouched
    /\ \A d \in WeeklyDays :
          /\ simulate => fetched[d] = <<>>
          /\ saved[d] >= 1 => (IF simulate THEN d \notin initial ELSE FetchedOk(d))
          /\ (kpc = "done" /\ simulate) => d \in on_disk

\* a run over an archive holding one of four dates: one fetch fails, two
\* succeed, the archived date is left alone
C25_Witness ==
    /\ kpc = "done"
    /\ crawler = "crawl_code"
    /\ initial = {8}
    /\ on_disk = {1, 8, 22}
    /\ fetched = [d \in WeeklyDays |-> IF d = 8 THEN <<>>
                                        ELSE IF d = 15 THEN <<"failed">> ELSE <<"ok">>]
    /\ saved = [d \in WeeklyDays |-> IF d \in {1, 22} THEN 1 ELSE 0]

\* ========================================================================
\* program1_fetch_tdcc.main: process_stock on a thread pool
\* ========================================================================
MaxStocks == 2
MaxWorkers == 2

\* the stock codes of the model: two equities and an ETF
Codes == { <<"2", "3", "3", "0">>, <<"2", "6", "0", "3">>, <<"0", "0", "5", "0">> }

\* the Mondays the site offers within the cutoff, ascending (lines 176-178)
available == <<1, 8>>

\* is_probably_equity: the pattern ^(00|01)\d{2}$ excludes the code
is_probably_equity(code) ==
    ~(/\ Len(code) = 4
      /\ code[1] = "0" /\ code[2] \in {"0", "1"}
      /\ IsDigit(code[3]) /\ IsDigit(code[4]))

\* existing_dates_for_stock: the dates that have a file in the stock's directory
existing_dates_for_stock(code) == {f[2] : f \in {g \in disk : g[1] = code}}

\* the calls of process_stock running in a worker thread
Running == {i \in 1..Len(futures) : futures[i].phase \in {"listed", "loop"}}

\* main, lines 208-215: the equities of the list, one submitted call each
MN_Submit ==
    /\ fpc = "submit"
    /\ LET picked == SelectSeq(stocks, is_probably_equity)
       IN futures' = [i \in 1..Len(picked) |->
                        [code |-> picked[i], phase |-> "queued", seen |-> {},
                         targets |-> <<>>, created |-> 0, collected |-> FALSE]]
    /\ fpc' = "collect"
    /\ UNCHANGED <<stocks, concurrency, disk, writes, results>>
    /\ UNCHANGED <<malformed, pvars, bvars, rvars, kvars>>
    /\ UNCHANGED <<qvars, ivars, cvars, avars>>

\* a free worker takes the oldest queued call; process_stock line 175 lists
\* the directory
PS_Existing(i) ==
    /\ fpc = "collect"
    /\ futures[i].phase = "queued"
    /\ \A j \in 1..(i - 1) : futures[j].phase # "queued"
    /\ Cardinality(Running) < concurrency
    /\ futures' = [futures EXCEPT ![i].phase = "listed",
                                  ![i].seen = existing_dates_for_stock(futures[i].code)]
    /\ UNCHANGED <<stocks, concurrency, disk, writes, results, fpc>>
    /\ UNCHANGED <<malformed, pvars, bvars, rvars, kvars>>
    /\ UNCHANGED <<qvars, ivars, cvars, avars>>

\* process_stock lines 176-179: the available dates and the targets
PS_Targets(i) ==
    /\ futures[i].phase = "listed"
    /\ futures' = [futures EXCEPT ![i].phase = "loop",
                                  ![i].targets = SelectSeq(available,
                                       LAMBDA d : d \notin futures[i].seen)]
    /\ UNCHANGED <<stocks, concurrency, disk, writes, results, fpc>>
    /\ UNCHANGED <<malformed, pvars, bvars, rvars, kvars>>
    /\ UNCHANGED <<qvars, ivars, cvars, avars>>

\* process_stock lines 181-184: the rows of the next target are fetched and
\* its csv is written
PS_Save(i) ==
    /\ futures[i].phase = "loop"
    /\ futures[i].targets # <<>>
    /\ disk' = disk \cup {<<futures[i].code, Head(futures[i].targets)>>}
    /\ writes' = Append(writes, [future |-> i, code |-> futures[i].code,
                                  date |-> Head(futures[i].targets)])
    /\ futures' = [futures EXCEPT ![i].targets = Tail(@), ![i].created = @ + 1]
    /\ UNCHANGED <<stocks, concurrency, results, fpc>>
    /\ UNCHANGED <<malformed, pvars, bvars, rvars, kvars>>
    /\ UNCHANGED <<qvars, ivars, cvars, avars>>

\* process_stock lines 186-187: an exception of fetch_dates_available or of
\* fetch_distribution_for_date ends the call with (code, -1)
PS_Except(i) ==
    /\ \/ futures[i].phase = "listed"
       \/ futures[i].phase = "loop" /\ futures[i].targets # <<>>
    /\ futures' = [futures EXCEPT ![i].phase = "finished", ![i].created = -1]
    /\ UNCHANGED <<stocks, concurrency, disk, writes, results, fpc>>
    /\ UNCHANGED <<malformed, pvars, bvars, rvars, kvars>>
    /\ UNCHANGED <<qvars, ivars, cvars, avars>>

\* process_stock line 185: return (stock.code, created)
PS_Return(i) ==
    /\ futures[i].phase = "loop"
    /\ futures[i].targets = <<>>
    /\ futures' = [futures EXCEPT ![i].phase = "finished"]
    /\ UNCHANGED <<stocks, concurrency, disk, writes, results, fpc>>
    /\ UNCHANGED <<malformed, pvars, bvars, rvars, kvars>>
    /\ UNCHANGED <<qvars, ivars, cvars, avars>>

\* main, lines 210-212: as_completed yields a finished call, its result is
\* appended
MN_Collect(i) ==
    /\ fpc = "collect"
    /\ futures[i].phase = "finished"
    /\ ~futures[i].collected
    /\ results' = Append(results, [future |-> i, code |-> futures[i].code,
                                    created |-> futures[i].created])
    /\ futures' = [futures EXCEPT ![i].collected = TRUE]
    /\ UNCHANGED <<stocks, concurrency, disk, writes, fpc>>
    /\ UNCHANGED <<malformed, pvars, bvars, rvars, kvars>>
    /\ UNCHANGED <<qvars, ivars, cvars, avars>>

\* main, lines 217-219: every call has been collected
MN_Return ==
    /\ fpc = "collect"
    /\ \A i \in 1..Len(futures) : futures[i].collected
    /\ fpc' = "done"
    /\ UNCHANGED <<stocks, concurrency, disk, futures, writes, results>>
    /\ UNCHANGED <<malformed, pvars, bvars, rvars, kvars>>
    /\ UNCHANGED <<qvars, ivars, cvars, avars>>

InitFetch ==
    /\ QIdle /\ CIdle /\ AIdle
    /\ WellFormed /\ PIdle /\ BIdle /\ RIdle /\ KIdle
    /\ \E n \in 0..MaxStocks : stocks \in [1..n -> Codes]
    /\ concurrency \in 1..MaxWorkers
    /\ disk \in SUBSET { << <<"2", "3", "3", "0">>, 1 >> }
    /\ futures = <<>>
    /\ writes = <<>>
    /\ results = <<>>
    /\ fpc = "submit"

NextFetch ==
    \/ MN_Submit
    \/ \E i \in 1..Len(futures) : PS_Existing(i)
    \/ \E i \in 1..Len(futures) : PS_Targets(i)
    \/ \E i \in 1..Len(futures) : PS_Save(i)
    \/ \E i \in 1..Len(futures) : PS_Except(i)
    \/ \E i \in 1..Len(futures) : PS_Return(i)
    \/ \E i \in 1..Len(futures) : MN_Collect(i)
    \/ MN_Return

SpecFetch == InitFetch /\ [][NextFetch]_vars

\* C30: in program1_fetch_tdcc.main, for every stock list (also one given
\* with --codes), every concurrency level and every interleaving, no (stock,
\* date) csv is written more than once during a run and no two workers write
\* the same file; a failure inside a worker yields (code, -1) for that stock
\* only, and exactly one result per submitted stock is collected.
C30_PoolWritesOnce ==
    /\ \A a, b \in 1..Len(writes) :
          (a # b) => ~(writes[a].code = writes[b].code /\ writes[a].date = writes[b].date)
    /\ \A a, b \in 1..Len(results) : (a # b) => results[a].future # results[b].future
    /\ \A a \in 1..Len(results) :
          /\ results[a].code = futures[results[a].future].code
          /\ results[a].created = futures[results[a].future].created
          /\ results[a].created # -1 =>
                results[a].created
                    = Cardinality({w \in 1..Len(writes) : writes[w].future = results[a].future})
    /\ fpc = "done" => Len(results) = Len(SelectSeq(stocks, is_probably_equity))
====
